---- MODULE Spec2Model ----
(***************************************************************************)
(* A model of king_of_sat_scraper.scraper.KingOfSatScraper: the header     *)
(* validator, the transponder table parser, the audio-track (APID) parser  *)
(* and the channel row parser.                                             *)
(*                                                                         *)
(* Text is a sequence of atoms.  An atom is one character (a digit, a      *)
(* blank, a punctuation mark) or an indivisible word of letters; what the  *)
(* code does with a string (strip, lower, upper, replace, startswith, a    *)
(* regular expression, int(), float()) is computed on that sequence.       *)
(*                                                                         *)
(* A document (the BeautifulSoup tree) is a record of the tables of class  *)
(* frq and the tables of class fl, in document order.  A table is the      *)
(* sequence of its rows, a row has a bgcolor and its cells, a cell has its *)
(* class list and its child nodes, and a node is a text node or an element *)
(* (a, font, img, br) holding one text.                                    *)
(*                                                                         *)
(* The last part models m3u.enrich_m3u.enrich_m3u: a playlist is the       *)
(* sequence of its lines, a line is a text, and the output file is the     *)
(* sequence of the lines written to it.                                    *)
(***************************************************************************)
EXTENDS Integers, Sequences, FiniteSets, TLC

VARIABLES
    soup,               \* self.soup: the parsed document
    self_transponders,  \* self.transponders
    vh,                 \* the frame of _validate_header_table
    pt,                 \* the frame of parse_transponders
    pch,                \* the frame of parse_channels
    pa,                 \* the frame of parse_apids
    returned,           \* what the calls made so far have returned, in order
    peer,               \* the scraper object of a second caller, while it waits
    em                  \* the frame of m3u.enrich_m3u.enrich_m3u and its two files

vars == <<soup, self_transponders, vh, pt, pch, pa, returned, peer, em>>

\* enrich_m3u is not running.
EmIdle == [pc |-> "idle"]

\* No second caller: a scraper of an empty document that is never run.
PeerIdle ==
    [soup |-> [frq |-> <<>>, fl |-> <<>>], self_transponders |-> <<>>,
     pt |-> [pc |-> "idle"]]

-----------------------------------------------------------------------------
(* Sequences *)

DeleteAt(s, i) == [k \in 1..(Len(s) - 1) |-> IF k < i THEN s[k] ELSE s[k + 1]]

InsertAt(s, i, x) ==
    [k \in 1..(Len(s) + 1) |-> IF k < i THEN s[k] ELSE IF k = i THEN x ELSE s[k - 1]]

ReplaceAt(s, i, x) == [s EXCEPT ![i] = x]

SwapAt(s, i, j) == [s EXCEPT ![i] = s[j], ![j] = s[i]]

RECURSIVE Flatten(_)
Flatten(ss) == IF ss = <<>> THEN <<>> ELSE Head(ss) \o Flatten(Tail(ss))

Min(a, b) == IF a <= b THEN a ELSE b

\* The sequences over S of length at most n.
SeqsUpTo(S, n) == UNION {[1..k -> S] : k \in 0..n}

-----------------------------------------------------------------------------
(* Characters and strings *)

\* The characters str.strip() and the pattern \s take for white space; "nbsp" is
\* the non-breaking space U+00A0 that &nbsp; decodes to.
WhitespaceAtoms == {" ", "\n", "\t", "nbsp"}

DigitAtoms == {"0", "1", "2", "3", "4", "5", "6", "7", "8", "9"}

\* The words of ASCII letters the documents of the model are written with.
AlphaAtoms ==
    {"eng", "ENG", "nar", "NAR", "fra", "deu", "H", "V", "h", "v", "X", "x",
     "Pos", "pos", "Satellite", "satellite", "Frequence", "frequence", "Pol", "pol",
     "Txp", "txp", "Beam", "beam", "Standard", "standard", "Modulation", "modulation",
     "SR", "sr", "FEC", "fec", "Network", "network", "bitrate", "NID", "nid",
     "TID", "tid", "Extra", "extra", "Column", "column", "MHz", "mhz",
     "InvalidFreq", "invalidfreq", "abc", "ABC", "a", "A", "img", "IMG",
     "Astra", "astra", "UK", "uk", "DVB", "dvb", "QPSK", "qpsk", "Mb", "mb",
     "Clear", "clear", "News", "news", "Sky", "sky", "Test", "test", "bad", "date",
     "nan", "NaN", "inf", "Infinity", "infinity"}

IsSpace(a) == a \in WhitespaceAtoms
IsDigit(a) == a \in DigitAtoms
IsAlpha(a) == a \in AlphaAtoms

DigitVal(a) ==
    CASE a = "0" -> 0 [] a = "1" -> 1 [] a = "2" -> 2 [] a = "3" -> 3 [] a = "4" -> 4
      [] a = "5" -> 5 [] a = "6" -> 6 [] a = "7" -> 7 [] a = "8" -> 8 [] a = "9" -> 9

\* str.lower() and str.upper() of one atom.
LowerAtom(a) ==
    CASE a = "ENG" -> "eng" [] a = "NAR" -> "nar" [] a = "H" -> "h" [] a = "V" -> "v"
      [] a = "X" -> "x" [] a = "Pos" -> "pos" [] a = "Satellite" -> "satellite"
      [] a = "Frequence" -> "frequence" [] a = "Pol" -> "pol" [] a = "Txp" -> "txp"
      [] a = "Beam" -> "beam" [] a = "Standard" -> "standard"
      [] a = "Modulation" -> "modulation" [] a = "SR" -> "sr" [] a = "FEC" -> "fec"
      [] a = "Network" -> "network" [] a = "NID" -> "nid" [] a = "TID" -> "tid"
      [] a = "Extra" -> "extra" [] a = "Column" -> "column" [] a = "MHz" -> "mhz"
      [] a = "InvalidFreq" -> "invalidfreq" [] a = "ABC" -> "abc" [] a = "A" -> "a"
      [] a = "IMG" -> "img" [] a = "Astra" -> "astra" [] a = "UK" -> "uk"
      [] a = "DVB" -> "dvb" [] a = "QPSK" -> "qpsk" [] a = "Mb" -> "mb"
      [] a = "Clear" -> "clear" [] a = "News" -> "news" [] a = "Sky" -> "sky"
      [] a = "Test" -> "test" [] a = "NaN" -> "nan" [] a = "Infinity" -> "infinity"
      [] OTHER -> a

UpperAtom(a) ==
    CASE a = "h" -> "H" [] a = "v" -> "V" [] a = "x" -> "X" [] a = "eng" -> "ENG"
      [] a = "nar" -> "NAR" [] a = "abc" -> "ABC" [] a = "a" -> "A"
      [] OTHER -> a

Lower(s) == [k \in 1..Len(s) |-> LowerAtom(s[k])]
Upper(s) == [k \in 1..Len(s) |-> UpperAtom(s[k])]

RECURSIVE LStrip(_)
LStrip(s) == IF s # <<>> /\ IsSpace(Head(s)) THEN LStrip(Tail(s)) ELSE s

RECURSIVE RStrip(_)
RStrip(s) ==
    IF s # <<>> /\ IsSpace(s[Len(s)]) THEN RStrip(SubSeq(s, 1, Len(s) - 1)) ELSE s

\* str.strip()
Strip(s) == RStrip(LStrip(s))

\* str.startswith(prefix)
StartsWith(s, prefix) ==
    Len(s) >= Len(prefix) /\ SubSeq(s, 1, Len(prefix)) = prefix

\* str.replace(a, ""), for a one-atom pattern
RemoveAtom(s, a) == SelectSeq(s, LAMBDA c : c # a)

\* The length of the longest prefix of s whose atoms are in the set S.
RECURSIVE PrefixLen(_, _)
PrefixLen(s, S) ==
    IF s # <<>> /\ Head(s) \in S THEN 1 + PrefixLen(Tail(s), S) ELSE 0

Drop(s, n) == SubSeq(s, n + 1, Len(s))

\* The number a run of decimal digits writes.
RECURSIVE DecimalValue(_)
DecimalValue(ds) ==
    IF ds = <<>> THEN 0
    ELSE 10 * DecimalValue(SubSeq(ds, 1, Len(ds) - 1)) + DigitVal(ds[Len(ds)])

-----------------------------------------------------------------------------
(* The document tree *)

TextNode(t) == [tag |-> "#text", class |-> "", txt |-> t]
Element(tag, t) == [tag |-> tag, class |-> "", txt |-> t]
ElementOfClass(tag, class, t) == [tag |-> tag, class |-> class, txt |-> t]
Br == Element("br", <<>>)
Img == Element("img", <<>>)

Cell(class, nodes) == [class |-> class, nodes |-> nodes]
TextCell(t) == Cell(<<>>, <<TextNode(t)>>)
Row(bgcolor, cells) == [bgcolor |-> bgcolor, cells |-> cells]

\* Tag.get_text(strip=True) of a cell: the stripped, non-empty strings of its
\* descendants, joined.
GetText(nodes) ==
    Flatten([k \in 1..Len(nodes) |-> Strip(nodes[k].txt)])

\* A table nested in a cell: a node that holds the rows of the table, and for its
\* text the text of all its cells.
TableText(table) ==
    Flatten([r \in 1..Len(table) |->
               Flatten([c \in 1..Len(table[r].cells) |-> GetText(table[r].cells[c].nodes)])])
TableNode(class, table) ==
    [tag |-> "table", class |-> class, txt |-> TableText(table), rows |-> table]
TableNodes(nodes) == SelectSeq(nodes, LAMBDA n : n.tag = "table")

\* The child nodes of all the cells of a table, in document order.
NodesInside(table) ==
    Flatten([r \in 1..Len(table) |->
               Flatten([c \in 1..Len(table[r].cells) |-> table[r].cells[c].nodes])])

\* Tag.find_all(tag) of a cell, in document order: the search goes down into the
\* tables nested in the cell.
RECURSIVE FindAll(_, _)
FindAll(nodes, tag) ==
    IF nodes = <<>> THEN <<>>
    ELSE LET n == Head(nodes) IN
         (IF n.tag = tag THEN <<n>> ELSE <<>>)
           \o (IF n.tag = "table" THEN FindAll(NodesInside(n.rows), tag) ELSE <<>>)
           \o FindAll(Tail(nodes), tag)

\* The table, row and cell elements under a table, a row or a cell, in document
\* order, the element itself first.
RECURSIVE ElementsOfTable(_, _), ElementsOfRows(_), ElementsOfCells(_), ElementsOfTableNodes(_)
ElementsOfTable(class, table) ==
    <<[kind |-> "table", class |-> class, val |-> table]>> \o ElementsOfRows(table)
ElementsOfRows(rows) ==
    IF rows = <<>> THEN <<>>
    ELSE <<[kind |-> "tr", class |-> "", val |-> Head(rows)]>>
           \o ElementsOfCells(Head(rows).cells)
           \o ElementsOfRows(Tail(rows))
ElementsOfCells(cells) ==
    IF cells = <<>> THEN <<>>
    ELSE <<[kind |-> "td", class |-> "", val |-> Head(cells)]>>
           \o ElementsOfTableNodes(TableNodes(Head(cells).nodes))
           \o ElementsOfCells(Tail(cells))
ElementsOfTableNodes(tableNodes) ==
    IF tableNodes = <<>> THEN <<>>
    ELSE ElementsOfTable(Head(tableNodes).class, Head(tableNodes).rows)
           \o ElementsOfTableNodes(Tail(tableNodes))

\* The elements of one kind among them.
OfKind(elements, kind) ==
    LET sel == SelectSeq(elements, LAMBDA e : e.kind = kind)
    IN  [k \in 1..Len(sel) |-> sel[k].val]

\* row.find_all("td"): the cells of the row and, after each, the cells of the
\* tables nested in it.
Tds(row) == OfKind(ElementsOfCells(row.cells), "td")

-----------------------------------------------------------------------------
(* _validate_header_table *)

ExpectedColumns ==
    << <<"Pos">>, <<"Satellite">>, <<"Frequence">>, <<"Pol">>, <<"Txp">>, <<"Beam">>,
       <<"Standard">>, <<"Modulation">>, <<"SR", "/", "FEC">>,
       <<"Network", ",", " ", "bitrate">>, <<"NID">>, <<"TID">> >>

\* The first character of an atom: a word stands for its first letter.
FirstChar(a) == IF a \in {"a", "abc", "astra"} THEN "a" ELSE a

\* soup.find("table", class_="frq"): the tables of class frq, the first of them.
FrqTables(s) == s.frq

\* table.find("tr"): a table is the sequence of its rows.
HasRow(table) == Len(table) > 0
FirstRow(table) == table[1]

\* [td.get_text(strip=True) for td in header_row.find_all("td")]
CellTexts(row) == [k \in 1..Len(row.cells) |-> GetText(row.cells[k].nodes)]

\* col == "" or col.lower() == "[img]" or col.startswith("<a")
IsStrippedColumn(col) ==
    \/ col = <<>>
    \/ Lower(col) = <<"[", "img", "]">>
    \/ (Len(col) >= 2 /\ col[1] = "<" /\ FirstChar(col[2]) = "a")

StripDecorative(columns) == SelectSeq(columns, LAMBDA col : ~IsStrippedColumn(col))

\* A plausible slip: the columns are compared as a set, whatever their order.
ColumnsMatchUnordered(actual_columns) ==
    /\ Len(actual_columns) = Len(ExpectedColumns)
    /\ {actual_columns[k] : k \in 1..Len(actual_columns)}
         = {ExpectedColumns[k] : k \in 1..Len(ExpectedColumns)}

\* actual_columns != expected_columns, negated
ColumnsMatch(actual_columns) == actual_columns = ExpectedColumns

\* The whole of _validate_header_table, as a function of the document.
validate_header_table(s) ==
    IF Len(FrqTables(s)) = 0 THEN FALSE
    ELSE IF ~HasRow(FrqTables(s)[1]) THEN FALSE
    ELSE ColumnsMatch(StripDecorative(CellTexts(FirstRow(FrqTables(s)[1]))))

VhIdle == [pc |-> "idle", actual_columns |-> <<>>, result |-> FALSE]

\* header_table = self.soup.find("table", class_="frq"); if not header_table: return False
VH_FindTable ==
    /\ vh.pc = "start"
    /\ vh' = IF Len(FrqTables(soup)) = 0
             THEN [vh EXCEPT !.pc = "done", !.result = FALSE]
             ELSE [vh EXCEPT !.pc = "find_row"]
    /\ UNCHANGED <<em, returned, peer, soup, self_transponders, pt, pch, pa>>

\* header_row = header_table.find("tr"); if not header_row: return False
VH_FindRow ==
    /\ vh.pc = "find_row"
    /\ vh' = IF ~HasRow(FrqTables(soup)[1])
             THEN [vh EXCEPT !.pc = "done", !.result = FALSE]
             ELSE [vh EXCEPT !.pc = "columns"]
    /\ UNCHANGED <<em, returned, peer, soup, self_transponders, pt, pch, pa>>

\* actual_columns = [td.get_text(strip=True) for td in header_row.find_all("td")]
VH_Columns ==
    /\ vh.pc = "columns"
    /\ vh' = [vh EXCEPT !.pc = "strip",
                        !.actual_columns = CellTexts(FirstRow(FrqTables(soup)[1]))]
    /\ UNCHANGED <<em, returned, peer, soup, self_transponders, pt, pch, pa>>

\* actual_columns = [col for col in actual_columns if not (...)]
VH_Strip ==
    /\ vh.pc = "strip"
    /\ vh' = [vh EXCEPT !.pc = "compare",
                        !.actual_columns = StripDecorative(vh.actual_columns)]
    /\ UNCHANGED <<em, returned, peer, soup, self_transponders, pt, pch, pa>>

\* if actual_columns != expected_columns: return False; return True
VH_Compare ==
    /\ vh.pc = "compare"
    /\ vh' = [vh EXCEPT !.pc = "done", !.result = ColumnsMatch(vh.actual_columns)]
    /\ UNCHANGED <<em, returned, peer, soup, self_transponders, pt, pch, pa>>

-----------------------------------------------------------------------------
(* The header rows the validator is run on *)

\* How many edits (a cell removed, two cells swapped, a cell's text altered or
\* padded, a cell inserted) a header row of the model is away from the expected one.
MaxEdits == 1

NameCell(i) == TextCell(ExpectedColumns[i])
ExpectedRowCells == [i \in 1..Len(ExpectedColumns) |-> NameCell(i)]

EmptyCell == Cell(<<>>, <<>>)
BlankCell == TextCell(<<"nbsp">>)
ImageCell == Cell(<<>>, <<Img>>)
\* <td><a href="contribution.php"><img src="/edit.gif"></a></td>
IconLinkCell == Cell(<<>>, <<Element("a", <<>>)>>)
\* <td><a href="contribution.php">Extra</a></td>
TextLinkCell == Cell(<<>>, <<Element("a", <<"Extra">>)>>)

\* A cell that is empty, holds only an image, or holds only a hyperlink.
DecorativeCells == {EmptyCell, BlankCell, ImageCell, IconLinkCell, TextLinkCell}

\* Cells whose text is written like markup.
MarkerCells ==
    {TextCell(<<"[", "IMG", "]">>), TextCell(<<"<", "a", ">">>),
     TextCell(<<"<", "a", " ", "Extra", " ", "Column">>)}

\* Cells of a further data column.
ExtraDataCells == {TextCell(<<"Extra", " ", "Column">>), TextCell(<<"TID">>)}

IsTextCell(c) == Len(c.nodes) = 1 /\ c.nodes[1].tag = "#text"

\* One edit of a header row: a cell removed, two cells swapped, a cell's text
\* altered or padded, a cell added.
HeaderEdits ==
    LET P == 1..(Len(ExpectedColumns) + 2) IN
    [kind : {"remove", "pad"}, i : P]
      \cup {[kind |-> "swap", i |-> e[1], j |-> e[2]] : e \in {q \in P \X P : q[1] < q[2]}}
      \cup [kind : {"alter"}, i : P, how : {"suffix", "prefix", "lower"}]
      \cup [kind : {"add"}, i : P, cell : DecorativeCells \cup MarkerCells \cup ExtraDataCells]

AlteredText(t, how) ==
    CASE how = "suffix" -> t \o <<" ", "*">>
      [] how = "prefix" -> <<"*">> \o t
      [] how = "lower" -> Lower(t)

\* The row an edit makes of a row; an edit that does not apply leaves it alone.
ApplyEdit(cells, e) ==
    CASE e.kind = "remove" -> IF e.i <= Len(cells) THEN DeleteAt(cells, e.i) ELSE cells
      [] e.kind = "swap" -> IF e.j <= Len(cells) THEN SwapAt(cells, e.i, e.j) ELSE cells
      [] e.kind = "alter" ->
           IF e.i <= Len(cells) /\ IsTextCell(cells[e.i])
           THEN ReplaceAt(cells, e.i, TextCell(AlteredText(cells[e.i].nodes[1].txt, e.how)))
           ELSE cells
      [] e.kind = "pad" ->
           IF e.i <= Len(cells) /\ IsTextCell(cells[e.i])
           THEN ReplaceAt(cells, e.i, TextCell(<<" ">> \o cells[e.i].nodes[1].txt \o <<"\n">>))
           ELSE cells
      [] e.kind = "add" -> IF e.i <= Len(cells) + 1 THEN InsertAt(cells, e.i, e.cell) ELSE cells

RECURSIVE ApplyEdits(_, _)
ApplyEdits(cells, es) ==
    IF es = <<>> THEN cells ELSE ApplyEdits(ApplyEdit(cells, Head(es)), Tail(es))

HeaderSoup(cells) == [frq |-> << <<Row("#999999", cells)>> >>, fl |-> <<>>]
NoTableSoup == [frq |-> <<>>, fl |-> <<>>]
NoRowSoup == [frq |-> << <<>> >>, fl |-> <<>>]

PtIdle == [pc |-> "idle"]
PchIdle == [pc |-> "idle"]
PaIdle == [pc |-> "idle"]

InitHeader ==
    /\ \/ soup \in {NoTableSoup, NoRowSoup}
       \/ \E es \in SeqsUpTo(HeaderEdits, MaxEdits) :
            soup = HeaderSoup(ApplyEdits(ExpectedRowCells, es))
    /\ self_transponders = <<>>
    /\ returned = <<>>
    /\ peer = PeerIdle
    /\ em = EmIdle
    /\ vh = [VhIdle EXCEPT !.pc = "start"]
    /\ pt = PtIdle
    /\ pch = PchIdle
    /\ pa = PaIdle

NextHeader == VH_FindTable \/ VH_FindRow \/ VH_Columns \/ VH_Strip \/ VH_Compare

SpecHeader == InitHeader /\ [][NextHeader]_vars

-----------------------------------------------------------------------------
(* Claims about _validate_header_table, checked under SpecHeader *)

HasHeaderRow(s) == Len(s.frq) > 0 /\ Len(s.frq[1]) > 0
HeaderCells == soup.frq[1][1].cells

\* The positions of the cells the validator keeps as columns.
KeptPositions(texts) == {k \in 1..Len(texts) : ~IsStrippedColumn(texts[k])}

\* The kept cells are exactly the expected names, in their order.
KeptAreExpected(texts) ==
    LET K == KeptPositions(texts) IN
    /\ Cardinality(K) = Len(ExpectedColumns)
    /\ \A k \in K : texts[k] = ExpectedColumns[Cardinality({j \in K : j < k}) + 1]

\* Cells the validator strips whatever else the row holds.
StrippedCells == {EmptyCell, BlankCell, ImageCell, IconLinkCell}

\* The rows that differ from a row by a missing column, by a swapped pair of
\* columns, by a column text with other content (a symbol added, another case).
RowsMissingColumn(cells) == {DeleteAt(cells, i) : i \in 1..Len(cells)}
RowsSwappedPair(cells) ==
    {SwapAt(cells, i, j) : i \in 1..Len(cells), j \in 1..Len(cells)} \ {cells}
RowsAlteredText(cells) ==
    {ReplaceAt(cells, i, TextCell(AlteredText(cells[i].nodes[1].txt, how))) :
       i \in 1..Len(cells), how \in {"suffix", "prefix", "lower"}}

\* cells is base with one of the cells of C added.
HasCellAdded(cells, base, C) ==
    /\ Len(cells) = Len(base) + 1
    /\ \E i \in 1..Len(cells) : cells[i] \in C /\ DeleteAt(cells, i) = base

\* cells is the expected row with a column missing, a further data column, two
\* columns swapped or a column's text altered.
IsBrokenRow(cells) ==
    \/ cells \in RowsMissingColumn(ExpectedRowCells)
    \/ cells \in RowsSwappedPair(ExpectedRowCells)
    \/ cells \in RowsAlteredText(ExpectedRowCells)
    \/ HasCellAdded(cells, ExpectedRowCells, ExtraDataCells)

\* A broken row, or a broken row with a stripped cell added to it.
IsBrokenRowDecorated(cells) ==
    \/ IsBrokenRow(cells)
    \/ \E i \in 1..Len(cells) : cells[i] \in StrippedCells /\ IsBrokenRow(DeleteAt(cells, i))

C4_DecorativeCellsIgnored ==
    vh.pc = "done" /\ HasHeaderRow(soup) =>
      /\ \A i \in 1..(Len(HeaderCells) + 1), c \in DecorativeCells :
           validate_header_table(HeaderSoup(InsertAt(HeaderCells, i, c))) = vh.result
      /\ \A k \in 1..Len(HeaderCells) :
           GetText(HeaderCells[k].nodes) # <<>>
             => ~IsStrippedColumn(GetText(HeaderCells[k].nodes))

-----------------------------------------------------------------------------
(* parse_apids *)

\* A dict in insertion order: the sequence of its items.
DictKeys(d) == [k \in 1..Len(d) |-> d[k].key]
DictHas(d, key) == \E k \in 1..Len(d) : d[k].key = key
DictGet(d, key) == d[CHOOSE k \in 1..Len(d) : d[k].key = key].val
\* d[key] = val: a new key goes last, a present key keeps its place.
DictSet(d, key, val) ==
    IF DictHas(d, key)
    THEN [k \in 1..Len(d) |-> IF d[k].key = key THEN [key |-> key, val |-> val] ELSE d[k]]
    ELSE Append(d, [key |-> key, val |-> val])
\* d.pop(key)
DictRemove(d, key) == SelectSeq(d, LAMBDA item : item.key # key)

NarKey == <<"nar">>
NarTempKey == <<"__nar_temp__">>

\* A text cut at its line ends.
RECURSIVE SplitAtNewline(_, _)
SplitAtNewline(t, cur) ==
    IF t = <<>> THEN <<cur>>
    ELSE IF Head(t) = "\n" THEN <<cur>> \o SplitAtNewline(Tail(t), <<>>)
    ELSE SplitAtNewline(Tail(t), Append(cur, Head(t)))

\* What a node adds to the part it lies in: an element its markup, with the text
\* in it; a text node its characters, nothing when there are none.
Piece(tag, t) == IF tag = "#text" /\ t = <<>> THEN <<>> ELSE <<t>>

\* re.split(r"<br\s*/?>|\n", str(apid_cell)): the cell's markup cut at its <br>
\* elements and at the line ends of its texts.  A part is kept as the sequence of
\* the texts of its nodes; cur is the part being collected.
RECURSIVE PartsFrom(_, _)
PartsFrom(nodes, cur) ==
    IF nodes = <<>> THEN <<cur>>
    ELSE LET n == Head(nodes) IN
         IF n.tag = "br" THEN <<cur>> \o PartsFrom(Tail(nodes), <<>>)
         ELSE LET segs == SplitAtNewline(n.txt, <<>>) IN
              IF Len(segs) = 1 THEN PartsFrom(Tail(nodes), cur \o Piece(n.tag, segs[1]))
              ELSE <<cur \o Piece(n.tag, segs[1])>>
                     \o [k \in 1..(Len(segs) - 2) |-> Piece(n.tag, segs[k + 1])]
                     \o PartsFrom(Tail(nodes), Piece(n.tag, segs[Len(segs)]))

\* list(filter(None, ...)): the parts that are not the empty string.
SplitParts(nodes) == SelectSeq(PartsFrom(nodes, <<>>), LAMBDA part : part # <<>>)

\* BeautifulSoup(part, "html.parser").get_text(strip=True)
PartText(part) == Flatten([k \in 1..Len(part) |-> Strip(part[k])])

\* A plausible slip: re.search, which finds the integer anywhere in the text.
RECURSIVE SearchDigits(_)
SearchDigits(text) ==
    IF text = <<>> \/ IsDigit(Head(text)) THEN text ELSE SearchDigits(Tail(text))

\* Where the pattern is tried: re.match tries it at the start of the text only.
MatchFrom(text) == text

\* re.match(r"(\d+)\s*([a-zA-Z]+)?", text): whether it matches, group 1 as an
\* integer, and group 2 lower-cased (<<>> when the group did not take part).
MatchApid(text) ==
    LET t0 == MatchFrom(text)
        nd == PrefixLen(t0, DigitAtoms)
        rest == Drop(t0, nd)
        afterSpace == Drop(rest, PrefixLen(rest, WhitespaceAtoms))
        na == PrefixLen(afterSpace, AlphaAtoms)
    IN  [matched |-> nd > 0,
         pid |-> DecimalValue(SubSeq(t0, 1, nd)),
         tag |-> Lower(SubSeq(afterSpace, 1, na))]

\* A plausible slip: the first fragment to carry a tag keeps it.
ApidSetFirstWins(apids, tag, pid) ==
    IF DictHas(apids, tag) THEN apids ELSE DictSet(apids, tag, pid)

\* apids[tag] = pid
ApidSet(apids, tag, pid) == DictSet(apids, tag, pid)

\* The body of "for part in parts": st is [apids, raw_apids].
PartStep(st, part) ==
    LET m == MatchApid(PartText(part)) IN
    IF ~m.matched THEN st
    ELSE IF m.tag # <<>> /\ m.tag # NarKey
         THEN [st EXCEPT !.apids = ApidSet(st.apids, m.tag, m.pid)]
    ELSE IF m.tag = NarKey
         THEN [st EXCEPT !.apids = DictSet(st.apids, NarTempKey, m.pid)]
    ELSE [st EXCEPT !.raw_apids = Append(st.raw_apids, m.pid)]

\* [tag.get_text(strip=True).lower() for tag in apid_cell.find_all("font")]
Languages(nodes) ==
    LET fonts == FindAll(nodes, "font") IN
    [k \in 1..Len(fonts) |-> Lower(Strip(fonts[k].txt))]

\* A plausible slip: the pairing is offset by one language.
PairKeyShifted(languages, j) == languages[IF j < Len(languages) THEN j + 1 ELSE 1]

\* The key of the j-th pair of zip(raw_apids, languages).
PairKey(languages, j) == languages[j]

\* The body of "for pid, lang in zip(raw_apids, languages)", for the j-th pair.
PairStep(apids, raw_apids, languages, j) ==
    DictSet(apids, PairKey(languages, j), raw_apids[j])

\* if "__nar_temp__" in apids: nar_pid = apids.pop("__nar_temp__"); apids["nar"] = nar_pid
MoveNar(apids) ==
    IF DictHas(apids, NarTempKey)
    THEN DictSet(DictRemove(apids, NarTempKey), NarKey, DictGet(apids, NarTempKey))
    ELSE apids

RECURSIVE PartsLoop(_, _)
PartsLoop(st, parts) ==
    IF parts = <<>> THEN st ELSE PartsLoop(PartStep(st, Head(parts)), Tail(parts))

RECURSIVE PairLoop(_, _, _, _)
PairLoop(apids, raw_apids, languages, j) ==
    IF j > Min(Len(raw_apids), Len(languages)) THEN apids
    ELSE PairLoop(PairStep(apids, raw_apids, languages, j), raw_apids, languages, j + 1)

\* The whole of parse_apids, as a function of the cell.
parse_apids(nodes) ==
    LET st == PartsLoop([apids |-> <<>>, raw_apids |-> <<>>], SplitParts(nodes))
    IN  MoveNar(PairLoop(st.apids, st.raw_apids, Languages(nodes), 1))

PaStart(nodes) ==
    [pc |-> "start", apid_cell |-> nodes, parts |-> <<>>, i |-> 1, apids |-> <<>>,
     raw_apids |-> <<>>, languages |-> <<>>, j |-> 1, result |-> <<>>]

\* apids = {}; raw_apids = []; parts = list(filter(None, re.split(...)))
PA_Split ==
    /\ pa.pc = "start"
    /\ pa' = [pa EXCEPT !.pc = "parts", !.parts = SplitParts(pa.apid_cell)]
    /\ UNCHANGED <<em, returned, peer, soup, self_transponders, vh, pt, pch>>

\* for part in parts: ...
PA_Part ==
    /\ pa.pc = "parts"
    /\ pa.i <= Len(pa.parts)
    /\ LET st == PartStep([apids |-> pa.apids, raw_apids |-> pa.raw_apids], pa.parts[pa.i])
       IN  pa' = [pa EXCEPT !.i = pa.i + 1, !.apids = st.apids, !.raw_apids = st.raw_apids]
    /\ UNCHANGED <<em, returned, peer, soup, self_transponders, vh, pt, pch>>

\* lang_tags = apid_cell.find_all("font"); languages = [...]
PA_Languages ==
    /\ pa.pc = "parts"
    /\ pa.i > Len(pa.parts)
    /\ pa' = [pa EXCEPT !.pc = "pair", !.languages = Languages(pa.apid_cell)]
    /\ UNCHANGED <<em, returned, peer, soup, self_transponders, vh, pt, pch>>

\* for pid, lang in zip(raw_apids, languages): apids[lang] = pid
PA_Pair ==
    /\ pa.pc = "pair"
    /\ pa.j <= Min(Len(pa.raw_apids), Len(pa.languages))
    /\ pa' = [pa EXCEPT !.j = pa.j + 1,
                        !.apids = PairStep(pa.apids, pa.raw_apids, pa.languages, pa.j)]
    /\ UNCHANGED <<em, returned, peer, soup, self_transponders, vh, pt, pch>>

\* Move "nar" to the end; return apids
PA_Return ==
    /\ pa.pc = "pair"
    /\ pa.j > Min(Len(pa.raw_apids), Len(pa.languages))
    /\ pa' = [pa EXCEPT !.pc = "done", !.apids = MoveNar(pa.apids),
                        !.result = MoveNar(pa.apids)]
    /\ UNCHANGED <<em, returned, peer, soup, self_transponders, vh, pt, pch>>

-----------------------------------------------------------------------------
(* The audio-track cells parse_apids is run on *)

\* How many child nodes an audio-track cell of the model has at most.
MaxNodes == 3

ApidTexts ==
    { <<"1">>,                       \* 1
      <<"1", "2">>,                  \* 12
      <<"2", " ", "nar">>,           \* 2 nar
      <<"3", " ", "ENG">>,           \* 3 ENG
      <<"4", "/">>,                  \* 4/
      <<"5", "\n", "6", "\n">>,      \* 5, 6, each on its own line
      <<"eng", " ", "7">>,           \* eng 7
      <<"nbsp">> }                   \* &nbsp;

FontTexts == { <<"eng">>, <<" ", "NAR">>, <<"fra">> }

ApidNodes ==
    {TextNode(t) : t \in ApidTexts} \cup {Element("font", t) : t \in FontTexts} \cup {Br}

\* The parser merges adjacent text: no two text nodes are neighbours.
WellFormedNodes(nodes) ==
    \A k \in 1..(Len(nodes) - 1) : ~(nodes[k].tag = "#text" /\ nodes[k + 1].tag = "#text")

ApidCells == {nodes \in SeqsUpTo(ApidNodes, MaxNodes) : WellFormedNodes(nodes)}

EmptySoup == [frq |-> <<>>, fl |-> <<>>]

InitApids ==
    /\ soup = EmptySoup
    /\ self_transponders = <<>>
    /\ returned = <<>>
    /\ peer = PeerIdle
    /\ em = EmIdle
    /\ vh = VhIdle
    /\ pt = PtIdle
    /\ pch = PchIdle
    /\ \E nodes \in ApidCells : pa = PaStart(nodes)

NextApids == PA_Split \/ PA_Part \/ PA_Languages \/ PA_Pair \/ PA_Return

SpecApids == InitApids /\ [][NextApids]_vars

-----------------------------------------------------------------------------
(* Claims about parse_apids, checked under SpecApids *)

\* What the pattern finds in the k-th fragment of the cell being parsed.
FragmentMatch(k) == MatchApid(PartText(SplitParts(pa.apid_cell)[k]))
Fragments == 1..Len(SplitParts(pa.apid_cell))
\* The fragments that carry a tag other than "nar", those that carry "nar".
TaggedFragments ==
    {k \in Fragments : FragmentMatch(k).matched /\ FragmentMatch(k).tag \notin {<<>>, NarKey}}
NarFragments == {k \in Fragments : FragmentMatch(k).matched /\ FragmentMatch(k).tag = NarKey}

\* C5: if the mapping parse_apids returns has the key "nar", then "nar" is its
\* last key, wherever the nar entry stands in the cell and whether it came from
\* plain text or from a language annotation.
C5_NarIsLastKey ==
    pa.pc = "done" /\ DictHas(pa.result, NarKey)
      => pa.result[Len(pa.result)].key = NarKey

\* C6: the untagged identifiers, in fragment order, are paired by position with
\* the texts of the font elements, lower-cased, in document order: each pair stores
\* the identifier under its language, exactly min(#raw, #languages) pairs are
\* stored, the identifiers and languages beyond that leave no entry, and a cell
\* with untagged identifiers and no font element yields the empty mapping.
C6_PositionalPairing ==
    LET m == Min(Len(pa.raw_apids), Len(pa.languages))
        fonts == FindAll(pa.apid_cell, "font")
    IN
    /\ pa.pc = "pair" /\ pa.j > 1 =>
         /\ DictHas(pa.apids, pa.languages[pa.j - 1])
         /\ DictGet(pa.apids, pa.languages[pa.j - 1]) = pa.raw_apids[pa.j - 1]
    /\ pa.pc \in {"pair", "done"} =>
         /\ Len(pa.languages) = Len(fonts)
         /\ \A k \in 1..Len(fonts) : pa.languages[k] = Lower(Strip(fonts[k].txt))
    /\ pa.pc = "done" =>
         /\ pa.j = m + 1
         /\ \A i \in 1..m :
              (/\ \A k \in (i + 1)..m : pa.languages[k] # pa.languages[i]
               /\ ~(pa.languages[i] = NarKey /\ NarFragments # {}))
                => /\ DictHas(pa.result, pa.languages[i])
                   /\ DictGet(pa.result, pa.languages[i]) = pa.raw_apids[i]
         /\ \A n \in 1..Len(pa.result) :
              \/ \E i \in 1..m : pa.result[n].key = pa.languages[i]
              \/ \E k \in TaggedFragments : pa.result[n].key = FragmentMatch(k).tag
              \/ pa.result[n].key = NarKey /\ NarFragments # {}
         /\ (pa.languages = <<>> /\ TaggedFragments = {} /\ NarFragments = {})
              => pa.result = <<>>

\* Two untagged identifiers and one font element: one pair was stored, the second
\* identifier left no entry.
C6_Witness ==
    /\ pa.pc = "done"
    /\ Len(pa.raw_apids) = 2
    /\ Len(pa.languages) = 1
    /\ pa.result = <<[key |-> pa.languages[1], val |-> pa.raw_apids[1]]>>

\* C7: every fragment whose text is an integer followed by a tag other than "nar"
\* records mapping[tag] = identifier; when several fragments carry the same tag the
\* result holds the identifier of the last of them; a single fragment with
\* identifier p and language l yields exactly {l: p}.
C7_TaggedLastWins ==
    pa.pc = "done" =>
      /\ \A k \in TaggedFragments :
           (\A n \in TaggedFragments : n > k => FragmentMatch(n).tag # FragmentMatch(k).tag)
             => /\ DictHas(pa.result, FragmentMatch(k).tag)
                /\ DictGet(pa.result, FragmentMatch(k).tag) = FragmentMatch(k).pid
      /\ (Fragments = {1} /\ TaggedFragments = {1})
           => pa.result = <<[key |-> FragmentMatch(1).tag, val |-> FragmentMatch(1).pid]>>

\* C8: parse_apids returns the empty mapping for a cell that is empty or holds
\* only a non-breaking space, and for any cell none of whose fragments starts with
\* an integer.
C8_NoIntegerNoEntry ==
    pa.pc = "done"
      /\ (\A k \in Fragments :
            LET text == PartText(SplitParts(pa.apid_cell)[k]) IN
            text = <<>> \/ ~IsDigit(text[1]))
      => pa.result = <<>>

\* A cell with a font element and a text that holds an integer, but not at its
\* start, was parsed to the empty mapping.
C8_Witness ==
    /\ pa.pc = "done"
    /\ pa.apid_cell = <<TextNode(<<"eng", " ", "7">>), Element("font", <<"eng">>)>>
    /\ pa.result = <<>>

-----------------------------------------------------------------------------
(* int() and float() *)

\* The digits of a number literal: decimal digits, with single underscores
\* between them.
IsDigitRun(body) ==
    /\ body # <<>>
    /\ \A k \in 1..Len(body) :
         \/ IsDigit(body[k])
         \/ /\ body[k] = "_"
            /\ 1 < k /\ k < Len(body)
            /\ IsDigit(body[k - 1]) /\ IsDigit(body[k + 1])

SignLen(t) == IF t # <<>> /\ t[1] \in {"+", "-"} THEN 1 ELSE 0
DigitsOf(body) == SelectSeq(body, IsDigit)

\* int(text) succeeds: white space around, a sign, a run of digits.
IsInt(text) == LET t == Strip(text) IN IsDigitRun(Drop(t, SignLen(t)))

\* int(text), when it succeeds.
IntValue(text) ==
    LET t == Strip(text)
        v == DecimalValue(DigitsOf(Drop(t, SignLen(t))))
    IN  IF t # <<>> /\ t[1] = "-" THEN 0 - v ELSE v

\* Where the decimal point of a literal stands (its length + 1 when it has none).
PointAt(body) ==
    IF \E k \in 1..Len(body) : body[k] = "."
    THEN CHOOSE k \in 1..Len(body) : body[k] = "." /\ \A n \in 1..(k - 1) : body[n] # "."
    ELSE Len(body) + 1

\* float(text) succeeds: white space around, a sign, then digits with an optional
\* point and fraction, or inf, infinity or nan in any letter case.
IsFloat(text) ==
    LET t == Strip(text)
        body == Drop(t, SignLen(t))
        p == PointAt(body)
        whole == SubSeq(body, 1, p - 1)
        frac == Drop(body, p)
    IN  \/ Lower(body) \in {<<"inf">>, <<"infinity">>, <<"nan">>}
        \/ /\ whole # <<>> \/ frac # <<>>
           /\ whole = <<>> \/ IsDigitRun(whole)
           /\ frac = <<>> \/ IsDigitRun(frac)

RECURSIVE DropTrailingZeros(_)
DropTrailingZeros(ds) ==
    IF ds # <<>> /\ ds[Len(ds)] = "0" THEN DropTrailingZeros(SubSeq(ds, 1, Len(ds) - 1))
    ELSE ds

\* float(text), when it succeeds: a sign, the whole part, and the digits of the
\* fraction up to its last one that is not 0; or the special value.
FloatValue(text) ==
    LET t == Strip(text)
        body == Drop(t, SignLen(t))
        p == PointAt(body)
    IN  IF Lower(body) \in {<<"inf">>, <<"infinity">>, <<"nan">>}
        THEN [special |-> Lower(body)[1], negative |-> (t[1] = "-"), whole |-> 0, frac |-> <<>>]
        ELSE [special |-> "",
              negative |-> (t # <<>> /\ t[1] = "-"),
              whole |-> DecimalValue(DigitsOf(SubSeq(body, 1, p - 1))),
              frac |-> DropTrailingZeros(DigitsOf(Drop(body, p)))]

-----------------------------------------------------------------------------
(* Transponder and parse_transponders *)

\* A plausible slip: the constructor does not validate the polarization.
PolarizationUnchecked(polarization) == FALSE

\* Transponder.__post_init__ raises ValueError.
PolarizationInvalid(polarization) == Upper(polarization) \notin {<<"H">>, <<"V">>}

\* Transponder(...) after __post_init__: self.polarization = self.polarization.upper()
NewTransponder(position, satellite, frequency, polarization, transponder_id, beam, system, modulation, symbol_rate, fec, network_bitrate, nid, tid) ==
    [position |-> position, satellite |-> satellite, frequency |-> frequency,
     polarization |-> Upper(polarization), transponder_id |-> transponder_id,
     beam |-> beam, system |-> system, modulation |-> modulation,
     symbol_rate |-> symbol_rate, fec |-> fec, network_bitrate |-> network_bitrate,
     nid |-> nid, tid |-> tid]

\* tag.find("a"), and the text of what it finds
Links(nodes) == FindAll(nodes, "a")
LinkText(link) == Strip(link.txt)

\* cols[1]: satellite_name_tag.get_text(strip=True) if satellite_name_tag else ""
SatelliteOf(nodes) == IF Links(nodes) # <<>> THEN LinkText(Links(nodes)[1]) ELSE <<>>

\* cols[2].get_text(strip=True).replace(",", "").replace("MHz", "").strip()
FrequencyText(nodes) == Strip(RemoveAtom(RemoveAtom(GetText(nodes), ","), "MHz"))

\* A plausible slip: the symbol rate is read only when both links are there.
SymbolRateFromBothLinks(sr_fec_links) == Len(sr_fec_links) > 1

\* len(sr_fec_links) > 0: the symbol rate is read from the first link.
SymbolRateFromLink(sr_fec_links) == Len(sr_fec_links) > 0

\* symbol_rate = int(sr_fec_links[0].get_text(strip=True)) if len(sr_fec_links) > 0 else 0.0
SymbolRateRaises(sr_fec_links) ==
    SymbolRateFromLink(sr_fec_links) /\ ~IsInt(LinkText(sr_fec_links[1]))
SymbolRateOf(sr_fec_links) ==
    IF SymbolRateFromLink(sr_fec_links) THEN IntValue(LinkText(sr_fec_links[1])) ELSE 0

\* fec = sr_fec_links[1].get_text(strip=True) if len(sr_fec_links) > 1 else ""
FecOf(sr_fec_links) == IF Len(sr_fec_links) > 1 THEN LinkText(sr_fec_links[2]) ELSE <<>>

\* A plausible slip: a cell that does not parse goes unnoticed.
RowNeverRaises(cols) == FALSE

\* The try block of the loop raises: float() or int() of a cell, or the constructor.
RowRaises(cols) ==
    \/ ~IsFloat(FrequencyText(cols[3].nodes))
    \/ ~IsInt(GetText(cols[5].nodes))
    \/ SymbolRateRaises(Links(cols[9].nodes))
    \/ ~IsInt(GetText(cols[11].nodes))
    \/ ~IsInt(GetText(cols[12].nodes))
    \/ PolarizationInvalid(Upper(GetText(cols[4].nodes)))

\* The Transponder the try block builds from cols[0] .. cols[11].
RowTransponder(cols) ==
    NewTransponder(GetText(cols[1].nodes),
                   SatelliteOf(cols[2].nodes),
                   FloatValue(FrequencyText(cols[3].nodes)),
                   Upper(GetText(cols[4].nodes)),
                   IntValue(GetText(cols[5].nodes)),
                   GetText(cols[6].nodes),
                   GetText(cols[7].nodes),
                   GetText(cols[8].nodes),
                   SymbolRateOf(Links(cols[9].nodes)),
                   FecOf(Links(cols[9].nodes)),
                   GetText(cols[10].nodes),
                   IntValue(GetText(cols[11].nodes)),
                   IntValue(GetText(cols[12].nodes)))

\* A plausible slip: a row with more cells than columns is skipped too.
WrongCellCount(cols) == Len(cols) # Len(ExpectedColumns)

\* len(cols) < 12
TooFewCells(cols) == Len(cols) < 12

\* A plausible slip: the header validation does not gate the parse.
HeaderGateOpen(s) == TRUE

\* self._validate_header_table(), as parse_transponders calls it
HeaderGatePasses(s) == validate_header_table(s)

LogEvent(level, what, i) == [level |-> level, what |-> what, i |-> i]

\* A plausible slip: the records are collected in a list that outlives the call
\* (self.transponders), so a call starts with what the call before it gathered.
PtStartKeeping ==
    [pc |-> "start", tables |-> <<>>, i |-> 1,
     transponders |-> IF pt.pc = "done" THEN pt.transponders ELSE <<>>,
     log |-> <<>>, result |-> <<>>]

\* A plausible slip: the records are collected in a list that all scraper
\* objects share, so a call starts with what the other caller has gathered.
PtStartShared ==
    [pc |-> "start", tables |-> <<>>, i |-> 1,
     transponders |-> IF peer.pt.pc \in {"loop", "done"} THEN peer.pt.transponders
                      ELSE <<>>,
     log |-> <<>>, result |-> <<>>]

PtStart ==
    [pc |-> "start", tables |-> <<>>, i |-> 1, transponders |-> <<>>, log |-> <<>>,
     result |-> <<>>]

\* if not self._validate_header_table(): logging.error(...); return []
PT_Validate ==
    /\ pt.pc = "start"
    /\ pt' = IF ~HeaderGatePasses(soup)
             THEN [pt EXCEPT !.pc = "done", !.result = <<>>,
                             !.log = Append(pt.log, LogEvent("error", "header_invalid", 0))]
             ELSE [pt EXCEPT !.pc = "find"]
    /\ UNCHANGED <<em, returned, peer, soup, self_transponders, vh, pch, pa>>

\* tables = self.soup.find_all("table", class_="frq"); if len(tables) <= 1: return []
PT_FindTables ==
    /\ pt.pc = "find"
    /\ pt' = IF Len(FrqTables(soup)) <= 1
             THEN [pt EXCEPT !.pc = "done", !.tables = FrqTables(soup), !.result = <<>>,
                             !.log = Append(pt.log, LogEvent("error", "no_data_tables", 0))]
             ELSE [pt EXCEPT !.pc = "loop", !.tables = FrqTables(soup), !.i = 1]
    /\ UNCHANGED <<em, returned, peer, soup, self_transponders, vh, pch, pa>>

\* One turn of "for i, table in enumerate(tables[1:], start=1)".
PT_Table ==
    /\ pt.pc = "loop"
    /\ pt.i <= Len(pt.tables) - 1
    /\ LET table == pt.tables[pt.i + 1] IN
       pt' = IF ~HasRow(table)
             THEN [pt EXCEPT !.i = pt.i + 1,
                             !.log = Append(pt.log, LogEvent("warning", "no_row", pt.i))]
             ELSE IF TooFewCells(FirstRow(table).cells)
             THEN [pt EXCEPT !.i = pt.i + 1,
                             !.log = Append(pt.log, LogEvent("warning", "malformed", pt.i))]
             ELSE IF RowRaises(FirstRow(table).cells)
             THEN [pt EXCEPT !.i = pt.i + 1,
                             !.log = Append(pt.log, LogEvent("error", "exception", pt.i))]
             ELSE [pt EXCEPT !.i = pt.i + 1,
                             !.transponders =
                                 Append(pt.transponders, RowTransponder(FirstRow(table).cells)),
                             !.log = Append(pt.log, LogEvent("debug", "parsed", pt.i))]
    /\ UNCHANGED <<em, returned, peer, soup, self_transponders, vh, pch, pa>>

\* logging.info(...); return transponders
PT_Return ==
    /\ pt.pc = "loop"
    /\ pt.i > Len(pt.tables) - 1
    /\ pt' = [pt EXCEPT !.pc = "done", !.result = pt.transponders,
                        !.log = Append(pt.log, LogEvent("info", "total", Len(pt.transponders)))]
    /\ UNCHANGED <<em, returned, peer, soup, self_transponders, vh, pch, pa>>

\* The whole of parse_transponders, as a function of the document.
RECURSIVE TranspondersOf(_)
TranspondersOf(tables) ==
    IF tables = <<>> THEN <<>>
    ELSE LET table == Head(tables) IN
         (IF HasRow(table) /\ ~TooFewCells(FirstRow(table).cells)
               /\ ~RowRaises(FirstRow(table).cells)
          THEN <<RowTransponder(FirstRow(table).cells)>>
          ELSE <<>>) \o TranspondersOf(Tail(tables))

parse_transponders(s) ==
    IF ~HeaderGatePasses(s) THEN <<>>
    ELSE IF Len(FrqTables(s)) <= 1 THEN <<>>
    ELSE TranspondersOf(Tail(FrqTables(s)))

-----------------------------------------------------------------------------
(* The documents parse_transponders is run on *)

\* How many data tables follow the header table of a document at most.
MaxTables == 2

LinkCell(t) == Cell(<<>>, <<Element("a", t)>>)

\* 28 | <a>Astra</a> | 10.50 | H | <a>45</a> | <a>UK</a> | DVB | QPSK |
\* <a>23</a> <a>3/4</a> | 50 Mb | 2 | 7
GoodCols ==
    << TextCell(<<"2", "8">>), LinkCell(<<"Astra">>), TextCell(<<"1", "0", ".", "5", "0">>),
       TextCell(<<"H">>), LinkCell(<<"4", "5">>), LinkCell(<<"UK">>), TextCell(<<"DVB">>),
       TextCell(<<"QPSK">>),
       Cell(<<>>, <<Element("a", <<"2", "3">>), TextNode(<<" ">>),
                    Element("a", <<"3", "/", "4">>)>>),
       TextCell(<<"5", "0", " ", "Mb">>), TextCell(<<"2">>), TextCell(<<"7">>) >>

\* SR/FEC cells: no link (text only, empty), one link, two links.
SrFecNoLink == {TextCell(<<"2", "7", " ", "5", "/", "6">>), EmptyCell}
SrFecOneLink ==
    {Cell(<<>>, <<Element("a", <<"2", "3">>), TextNode(<<" ", "3", "/", "4">>)>>),
     LinkCell(<<"3", "/", "4">>)}
SrFecBadLinks == {Cell(<<>>, <<Element("a", <<"abc">>), Element("a", <<"3", "/", "4">>)>>)}

\* Other cells a column of a data row may hold, by column.
OtherCells(col) ==
    CASE col = 2 -> {TextCell(<<"Astra">>)}
      [] col = 3 -> {TextCell(<<"1", ",", "0", "0", "0", ".", "0", " ", "MHz">>),
                     TextCell(<<"InvalidFreq">>), TextCell(<<"NaN">>),
                     TextCell(<<"-", "inf", " ", "MHz">>)}
      [] col = 4 -> {TextCell(<<"v">>), TextCell(<<"X">>)}
      [] col = 5 -> {TextCell(<<"abc">>)}
      [] col = 9 -> SrFecNoLink \cup SrFecOneLink \cup SrFecBadLinks
      [] col = 11 -> {TextCell(<<"abc">>)}
      [] col = 12 -> {TextCell(<<"7", " ", "7">>)}
      [] OTHER -> {}

ExtraCell == TextCell(<<"Extra">>)

\* The good row, the good row with one other cell, and rows with fewer or more
\* cells than the 12 columns.
DataRows ==
    LET full == {GoodCols} \cup UNION {{ReplaceAt(GoodCols, col, c) : c \in OtherCells(col)} :
                                         col \in 1..Len(GoodCols)}
    IN  full
          \cup {SubSeq(GoodCols, 1, 4), SubSeq(GoodCols, 1, 11)}
          \cup {GoodCols \o <<ExtraCell>>, GoodCols \o <<ExtraCell, TextCell(<<"abc">>)>>,
                ReplaceAt(GoodCols, 12, TextCell(<<"abc">>)) \o <<TextCell(<<"7">>)>>}

\* A table with no row, the tables of one data row, and a table of two rows.
DataTables ==
    {<<>>} \cup {<<Row("", cols)>> : cols \in DataRows}
      \cup {<<Row("", GoodCols), Row("", SubSeq(GoodCols, 1, 4))>>}

\* The header tables: as expected, with the icon cell of the site, with two
\* columns swapped, with a column missing, and with no row.
HeaderTables ==
    {<<Row("#999999", ExpectedRowCells)>>,
     <<Row("#999999", ExpectedRowCells \o <<IconLinkCell>>)>>,
     <<Row("#999999", SwapAt(ExpectedRowCells, 1, 2))>>,
     <<Row("#999999", DeleteAt(ExpectedRowCells, 1))>>,
     <<>>}

InitTransponders ==
    /\ \/ soup = EmptySoup
       \/ \E h \in HeaderTables, ts \in SeqsUpTo(DataTables, MaxTables) :
            soup = [frq |-> <<h>> \o ts, fl |-> <<>>]
    /\ self_transponders = <<>>
    /\ returned = <<>>
    /\ peer = PeerIdle
    /\ em = EmIdle
    /\ vh = VhIdle
    /\ pt = PtStart
    /\ pch = PchIdle
    /\ pa = PaIdle

NextTransponders == PT_Validate \/ PT_FindTables \/ PT_Table \/ PT_Return

SpecTransponders == InitTransponders /\ [][NextTransponders]_vars

-----------------------------------------------------------------------------
(* Claims about parse_transponders, checked under SpecTransponders *)

\* The data tables the loop has been through, numbered as the loop numbers them.
ProcessedTables == IF pt.pc \in {"loop", "done"} THEN 1..(pt.i - 1) ELSE {}
DataTable(k) == pt.tables[k + 1]
HasFullRow(k) == HasRow(DataTable(k)) /\ Len(FirstRow(DataTable(k)).cells) >= 12
ColsOf(k) == FirstRow(DataTable(k)).cells

\* The log entries of parsed rows; the table k has one when its row gave a record.
ParsedEntries == {n \in 1..Len(pt.log) : pt.log[n].what = "parsed"}
EmittedFor(k) == \E n \in ParsedEntries : pt.log[n].i = k
\* The record of table k: the records are appended in the order of these entries.
TransponderOfTable(k) ==
    pt.transponders[Cardinality({n \in ParsedEntries : pt.log[n].i <= k})]
RecordsMatchLog ==
    /\ Len(pt.transponders) = Cardinality(ParsedEntries)
    /\ \A n1, n2 \in ParsedEntries : n1 < n2 => pt.log[n1].i < pt.log[n2].i

\* Every table the loop looks at leaves a log entry of one of these kinds.
TableEntries == {"no_row", "malformed", "exception", "parsed"}

\* C2: parse_transponders returns an empty sequence whenever the header validation
\* fails, and whenever the document has no frq table after the header table; in
\* both cases no data table is inspected.
C2_EmptyWithoutHeaderOrTables ==
    pt.pc = "done" /\ (~validate_header_table(soup) \/ Len(soup.frq) <= 1)
      => /\ pt.result = <<>>
         /\ ProcessedTables = {}
         /\ \A n \in 1..Len(pt.log) : pt.log[n].what \notin TableEntries

\* A document with a valid header table and no data table was parsed to nothing.
C2_Witness ==
    /\ pt.pc = "done"
    /\ validate_header_table(soup)
    /\ Len(soup.frq) = 1
    /\ pt.result = <<>>

\* The cells of a row other than its SR/FEC cell parse.
OtherCellsParse(cols) ==
    /\ IsFloat(FrequencyText(cols[3].nodes))
    /\ IsInt(GetText(cols[5].nodes))
    /\ IsInt(GetText(cols[11].nodes))
    /\ IsInt(GetText(cols[12].nodes))
    /\ ~PolarizationInvalid(Upper(GetText(cols[4].nodes)))

\* C9 as claimed: whenever the SR/FEC cell of a row holds fewer than two
\* hyperlinks (none or exactly one), the Transponder has symbol_rate = 0 and
\* fec = "", whatever text the cell holds, and the row is not rejected because of
\* that cell.
C9_FallbackBelowTwoLinks ==
    /\ RecordsMatchLog
    /\ \A k \in ProcessedTables :
         HasFullRow(k) /\ OtherCellsParse(ColsOf(k)) /\ Len(Links(ColsOf(k)[9].nodes)) < 2
           => /\ EmittedFor(k)
              /\ TransponderOfTable(k).symbol_rate = 0
              /\ TransponderOfTable(k).fec = <<>>

\* C9, amended: with no hyperlink in the SR/FEC cell the Transponder has
\* symbol_rate = 0 and fec = "", whatever text the cell holds, and the row is not
\* rejected because of that cell; with exactly one hyperlink fec = "" and
\* symbol_rate is the integer that hyperlink's text writes, and the row is rejected
\* when that text is no integer.
C9_FallbackPerLink ==
    /\ RecordsMatchLog
    /\ \A k \in ProcessedTables :
         HasFullRow(k) /\ OtherCellsParse(ColsOf(k)) =>
           LET links == Links(ColsOf(k)[9].nodes) IN
           /\ Len(links) = 0 =>
                /\ EmittedFor(k)
                /\ TransponderOfTable(k).symbol_rate = 0
                /\ TransponderOfTable(k).fec = <<>>
           /\ Len(links) = 1 =>
                /\ EmittedFor(k) <=> IsInt(LinkText(links[1]))
                /\ EmittedFor(k) =>
                     /\ TransponderOfTable(k).symbol_rate = IntValue(LinkText(links[1]))
                     /\ TransponderOfTable(k).fec = <<>>

\* A row whose SR/FEC cell holds one hyperlink, 23, gave a record with symbol
\* rate 23 and no fec.
C9_Witness ==
    \E k \in ProcessedTables :
      /\ HasFullRow(k)
      /\ Len(Links(ColsOf(k)[9].nodes)) = 1
      /\ EmittedFor(k)
      /\ TransponderOfTable(k).symbol_rate = 23
      /\ TransponderOfTable(k).fec = <<>>

\* C10: a data table with no row, or whose first row has fewer than 12 cells,
\* contributes no record; a row of 12 or more cells is parsed from its first 12
\* cells only, the further cells are ignored.
C10_TwelveCells ==
    /\ RecordsMatchLog
    /\ \A k \in ProcessedTables :
         /\ ~HasFullRow(k) => ~EmittedFor(k)
         /\ HasFullRow(k) =>
              LET first12 == SubSeq(ColsOf(k), 1, 12) IN
              /\ EmittedFor(k) <=> ~RowRaises(first12)
              /\ EmittedFor(k) => TransponderOfTable(k) = RowTransponder(first12)

\* A row of 14 cells gave a record, after a row of 4 cells that gave none.
C10_Witness ==
    \E k1, k2 \in ProcessedTables :
      /\ k1 < k2
      /\ HasRow(DataTable(k1)) /\ Len(ColsOf(k1)) = 4 /\ ~EmittedFor(k1)
      /\ HasFullRow(k2) /\ Len(ColsOf(k2)) = 14 /\ EmittedFor(k2)

-----------------------------------------------------------------------------
(* Channel and KingOfSatScraper.parse_channels *)

\* Optional[...]: None, or the value it holds.
None == <<>>
Some(v) == <<v>>

\* A plausible slip: the empty string is kept as it is.
KeepEmpty(text) == Some(text)

\* "x or None" of a string: the empty string is falsy.
OrNone(text) == IF text = <<>> THEN None ELSE Some(text)

\* channel_type_td.get("class", []); class_attr[0] if class_attr else None
ChannelTypeOf(cell) == IF cell.class # <<>> THEN Some(cell.class[1]) ELSE None

\* cols[2].find("a", class_="A3"), and the name taken from it or from the cell
NameTags(nodes) == SelectSeq(nodes, LAMBDA n : n.tag = "a" /\ n.class = "A3")
NameOf(nodes) ==
    IF NameTags(nodes) # <<>> THEN Strip(NameTags(nodes)[1].txt) ELSE GetText(nodes)

\* packages = [a.get_text(strip=True) for a in pkg_links], [] without links
PackagesOf(nodes) == [k \in 1..Len(Links(nodes)) |-> LinkText(Links(nodes)[k])]

\* re.search(r"\d+", vpid_text): the first run of digits of the text
FirstDigitRun(text) ==
    LET from == SearchDigits(text) IN SubSeq(from, 1, PrefixLen(from, DigitAtoms))

\* vpid = int(vpid_match.group()) if vpid_match else None
VpidOf(text) ==
    IF FirstDigitRun(text) = <<>> THEN None ELSE Some(DecimalValue(FirstDigitRun(text)))

\* Characters str.isdigit() accepts and int() does not: the superscript digits.
SuperscriptAtoms == {"sup2"}

\* str.isdigit(): not empty, and digits (of any kind) only
IsDigitString(text) ==
    text # <<>> /\ \A k \in 1..Len(text) : text[k] \in DigitAtoms \cup SuperscriptAtoms

\* A plausible slip: an int() that fails goes unnoticed.
PidNeverRaises(text) == FALSE

\* int(text) if text.isdigit() else None: whether int() raises, and the value
PidRaises(text) == IsDigitString(text) /\ ~IsInt(text)
PidOf(text) == IF IsDigitString(text) THEN Some(IntValue(text)) ELSE None

\* re.sub(r"[^0-9-]", "", date_str)
DateChars(text) == SelectSeq(text, LAMBDA a : a \in DigitAtoms \cup {"-"})

\* The fields of a date text split at its hyphens.
RECURSIVE SplitAtHyphen(_, _)
SplitAtHyphen(t, cur) ==
    IF t = <<>> THEN <<cur>>
    ELSE IF Head(t) = "-" THEN <<cur>> \o SplitAtHyphen(Tail(t), <<>>)
    ELSE SplitAtHyphen(Tail(t), Append(cur, Head(t)))

IsLeapYear(y) == (y % 4 = 0 /\ y % 100 # 0) \/ y % 400 = 0
DaysInMonth(y, mo) ==
    IF mo = 2 THEN (IF IsLeapYear(y) THEN 29 ELSE 28)
    ELSE IF mo \in {4, 6, 9, 11} THEN 30 ELSE 31

\* datetime.strptime(date_str, "%Y-%m-%d") succeeds: four digits of a year from
\* 1 on, a month 1..12 and a day of that month, of one or two digits each.
IsDate(date_str) ==
    LET f == SplitAtHyphen(date_str, <<>>) IN
    /\ Len(f) = 3
    /\ Len(f[1]) = 4
    /\ Len(f[2]) \in {1, 2}
    /\ Len(f[3]) \in {1, 2}
    /\ DecimalValue(f[1]) >= 1
    /\ DecimalValue(f[2]) \in 1..12
    /\ DecimalValue(f[3]) \in 1..DaysInMonth(DecimalValue(f[1]), DecimalValue(f[2]))

DateOf(date_str) ==
    LET f == SplitAtHyphen(date_str, <<>>) IN
    [year |-> DecimalValue(f[1]), month |-> DecimalValue(f[2]), day |-> DecimalValue(f[3])]

NewChannel(channel_type, name, country, category, packages, encryption, sid, vpid, apids, pmt, pcr, txt, last_updated) ==
    [channel_type |-> channel_type, name |-> name, country |-> country,
     category |-> category, packages |-> packages, encryption |-> encryption,
     sid |-> sid, vpid |-> vpid, apids |-> apids, pmt |-> pmt, pcr |-> pcr,
     txt |-> txt, last_updated |-> last_updated]

\* A plausible slip: a SID that is no integer goes unnoticed.
SidNotChecked(cols) ==
    \/ Len(cols) < 14
    \/ PidRaises(GetText(cols[11].nodes))
    \/ PidRaises(GetText(cols[12].nodes))
    \/ PidRaises(GetText(cols[13].nodes))
    \/ ~IsDate(DateChars(GetText(cols[14].nodes)))

\* Whether the body of the try raises on a row: a cell that is not there
\* (IndexError), int() of the SID or of a PID, strptime of the date.
ChannelRowRaises(cols) ==
    \/ Len(cols) < 14
    \/ ~IsInt(GetText(cols[8].nodes))
    \/ PidRaises(GetText(cols[11].nodes))
    \/ PidRaises(GetText(cols[12].nodes))
    \/ PidRaises(GetText(cols[13].nodes))
    \/ ~IsDate(DateChars(GetText(cols[14].nodes)))

\* The Channel of a row on which nothing raises (cols is 0-based in the code).
RowChannel(cols) ==
    NewChannel(ChannelTypeOf(cols[1]),
               NameOf(cols[3].nodes),
               OrNone(GetText(cols[4].nodes)),
               OrNone(GetText(cols[5].nodes)),
               PackagesOf(cols[6].nodes),
               GetText(cols[7].nodes),
               IntValue(GetText(cols[8].nodes)),
               VpidOf(GetText(cols[9].nodes)),
               parse_apids(cols[10].nodes),
               PidOf(GetText(cols[11].nodes)),
               PidOf(GetText(cols[12].nodes)),
               PidOf(GetText(cols[13].nodes)),
               DateOf(DateChars(GetText(cols[14].nodes))))

\* A plausible slip: the channel tables are read only behind the header gate.
FlTablesGated(s) == IF validate_header_table(s) THEN s.fl ELSE <<>>

\* self.soup.find_all("table", class_="fl"): the tables of class fl of the
\* document and, after each, the tables nested in it.
FlTables(s) ==
    Flatten([k \in 1..Len(s.fl) |->
               OfKind(SelectSeq(ElementsOfTable("fl", s.fl[k]), LAMBDA e : e.class = "fl"),
                      "table")])

\* table.find_all("tr", bgcolor="white"): the white rows under the table, those
\* of the tables nested in it included.
WhiteRows(table) ==
    SelectSeq(OfKind(ElementsOfRows(table), "tr"), LAMBDA row : row.bgcolor = "white")

PchStart ==
    [pc |-> "start", tables |-> <<>>, t |-> 1, r |-> 1, channels |-> <<>>,
     log |-> <<>>, result |-> <<>>]

\* channels = []; for table in self.soup.find_all("table", class_="fl"):
PCH_FindTables ==
    /\ pch.pc = "start"
    /\ pch' = [pch EXCEPT !.pc = "loop", !.tables = FlTables(soup), !.t = 1, !.r = 1]
    /\ UNCHANGED <<em, returned, peer, soup, self_transponders, vh, pt, pa>>

\* One turn of "for row in table.find_all(...)": the try and its except.
PCH_Row ==
    /\ pch.pc = "loop"
    /\ pch.t <= Len(pch.tables)
    /\ pch.r <= Len(WhiteRows(pch.tables[pch.t]))
    /\ LET cols == Tds(WhiteRows(pch.tables[pch.t])[pch.r]) IN
       pch' = IF ChannelRowRaises(cols)
              THEN [pch EXCEPT !.r = pch.r + 1,
                               !.log = Append(pch.log,
                                              LogEvent("warning", "exception", pch.r))]
              ELSE [pch EXCEPT !.r = pch.r + 1,
                               !.channels = Append(pch.channels, RowChannel(cols))]
    /\ UNCHANGED <<em, returned, peer, soup, self_transponders, vh, pt, pa>>

\* The rows of a table are exhausted: the outer loop takes the next table.
PCH_NextTable ==
    /\ pch.pc = "loop"
    /\ pch.t <= Len(pch.tables)
    /\ pch.r > Len(WhiteRows(pch.tables[pch.t]))
    /\ pch' = [pch EXCEPT !.t = pch.t + 1, !.r = 1]
    /\ UNCHANGED <<em, returned, peer, soup, self_transponders, vh, pt, pa>>

\* logging.info(...); return channels
PCH_Return ==
    /\ pch.pc = "loop"
    /\ pch.t > Len(pch.tables)
    /\ pch' = [pch EXCEPT !.pc = "done", !.result = pch.channels,
                          !.log = Append(pch.log,
                                         LogEvent("info", "total", Len(pch.channels)))]
    /\ UNCHANGED <<em, returned, peer, soup, self_transponders, vh, pt, pa>>

\* The Channels of a sequence of rows, in order.
RECURSIVE ChannelsOf(_)
ChannelsOf(rows) ==
    IF rows = <<>> THEN <<>>
    ELSE (IF ChannelRowRaises(Tds(Head(rows))) THEN <<>>
          ELSE <<RowChannel(Tds(Head(rows)))>>) \o ChannelsOf(Tail(rows))

\* The white rows of the tables, in document order.
RECURSIVE AllWhiteRows(_)
AllWhiteRows(tables) ==
    IF tables = <<>> THEN <<>>
    ELSE WhiteRows(Head(tables)) \o AllWhiteRows(Tail(tables))

\* The whole of parse_channels, as a function of the document.
parse_channels(s) == ChannelsOf(AllWhiteRows(FlTables(s)))

-----------------------------------------------------------------------------
(* The documents the whole scraper is run on *)

\* How many rows a channel table has at most.
MaxChannelRows == 2

DateText == <<"2", "0", "2", "4", "-", "0", "1", "-", "1", "0">>

\* The cells of a channel row as the site writes it.
GoodChannelCols ==
    <<Cell(<<"v", "px3">>, <<>>),
      Cell(<<>>, <<Img>>),
      Cell(<<"ch">>, <<TextNode(<<"Test">>)>>),
      Cell(<<"pays">>, <<TextNode(<<"UK">>)>>),
      Cell(<<"genre">>, <<TextNode(<<"News">>)>>),
      Cell(<<"bq">>, <<ElementOfClass("a", "bq", <<"Sky">>)>>),
      Cell(<<"cr">>, <<TextNode(<<"Clear">>)>>),
      Cell(<<"s">>, <<TextNode(<<"5">>)>>),
      Cell(<<"mpeg4">>, <<TextNode(<<"4">>)>>),
      Cell(<<>>, <<TextNode(<<"1">>), Element("font", <<"eng">>)>>),
      Cell(<<"pid">>, <<TextNode(<<"2">>)>>),
      Cell(<<"pid">>, <<TextNode(<<"4">>)>>),
      Cell(<<"pid">>, <<TextNode(<<"6">>)>>),
      Cell(<<"maj">>, <<Element("a", DateText)>>)>>

\* Rows of the channel tables: the good row; a radio row with no class, a linked
\* name and its optional fields empty; rows with a date, a SID or a PID that
\* does not parse; a row short of a cell; and a row that is not white.
ChannelRows ==
    {Row("white", GoodChannelCols),
     Row("white", [GoodChannelCols EXCEPT
                     ![1] = Cell(<<>>, <<>>),
                     ![3] = Cell(<<"ch">>, <<Img, ElementOfClass("a", "A3", <<" ", "Sky">>)>>),
                     ![4] = TextCell(<<"nbsp">>),
                     ![6] = TextCell(<<"Sky">>),
                     ![9] = TextCell(<<>>),
                     ![13] = TextCell(<<"nbsp">>)]),
     Row("white", [GoodChannelCols EXCEPT
                     ![14] = Cell(<<"maj">>, <<Element("a", <<"bad", "-", "date">>)>>)]),
     Row("white", [GoodChannelCols EXCEPT ![8] = TextCell(<<"abc">>)]),
     Row("white", [GoodChannelCols EXCEPT ![11] = TextCell(<<"sup2">>)]),
     Row("white", SubSeq(GoodChannelCols, 1, 13)),
     Row("#999999", GoodChannelCols)}

ChannelTables == SeqsUpTo(ChannelRows, MaxChannelRows)

\* The tables of class fl of a document: none, one, or two.
FlDocuments ==
    {<<>>} \cup {<<table>> : table \in ChannelTables}
      \cup {<<<<Row("white", GoodChannelCols)>>, table>> : table \in SeqsUpTo(ChannelRows, 1)}

\* The tables of class frq of a document: none, or a header table (as
\* expected, with two columns swapped, with no row) and a data table.
FrqDocuments ==
    {<<>>,
     <<<<Row("#999999", ExpectedRowCells)>>>>,
     <<<<Row("#999999", ExpectedRowCells \o <<IconLinkCell>>)>>, <<Row("", GoodCols)>>>>,
     <<<<Row("#999999", SwapAt(ExpectedRowCells, 1, 2))>>, <<Row("", GoodCols)>>>>,
     <<<<>>, <<Row("", GoodCols)>>>>}

Init ==
    /\ \E frq \in FrqDocuments, fl \in FlDocuments : soup = [frq |-> frq, fl |-> fl]
    /\ self_transponders = <<>>
    /\ returned = <<>>
    /\ peer = PeerIdle
    /\ em = EmIdle
    /\ vh = VhIdle
    /\ pt = PtStart
    /\ pch = PchStart
    /\ pa = PaIdle

NextChannels == PCH_FindTables \/ PCH_Row \/ PCH_NextTable \/ PCH_Return

Next == NextTransponders \/ NextChannels

Spec == Init /\ [][Next]_vars

-----------------------------------------------------------------------------
(* Header validation and the two parsers *)

\* The rows of the channel tables that parse_channels can read.
ReadableRows(s) ==
    SelectSeq(AllWhiteRows(s.fl), LAMBDA row : ~ChannelRowRaises(row.cells))

-----------------------------------------------------------------------------
(* Claims about the rows of parse_transponders, checked under SpecTransponders *)

\* The text writes a real number: it parses with float() to a finite value.
IsRealNumber(text) == IsFloat(text) /\ FloatValue(text).special = ""

\* C11: a row whose frequency cell, after the commas and the MHz unit are
\* removed, does not parse as a real number yields no Transponder, and the call
\* still returns normally.
C11_NoRecordWithoutFrequency ==
    /\ RecordsMatchLog
    /\ pt.pc = "done" => pt.result = pt.transponders
    /\ \A k \in ProcessedTables :
         HasFullRow(k) /\ ~IsRealNumber(FrequencyText(ColsOf(k)[3].nodes))
           => ~EmittedFor(k)


\* The polarization text of the row of table k, as the code reads it.
PolarizationText(k) == Upper(GetText(ColsOf(k)[4].nodes))

\* C12: every Transponder parse_transponders holds or returns has polarization
\* "H" or "V", in upper case; a row with any other polarization value yields no
\* record, the constructor having failed.
C12_PolarizationHV ==
    /\ RecordsMatchLog
    /\ \A n \in 1..Len(pt.transponders) :
         pt.transponders[n].polarization \in {<<"H">>, <<"V">>}
    /\ \A n \in 1..Len(pt.result) : pt.result[n].polarization \in {<<"H">>, <<"V">>}
    /\ \A k \in ProcessedTables :
         HasFullRow(k) =>
           /\ PolarizationText(k) \notin {<<"H">>, <<"V">>} => ~EmittedFor(k)
           /\ EmittedFor(k) => TransponderOfTable(k).polarization = PolarizationText(k)

\* A row written with the polarization v gave a record with polarization V, and
\* a row with the polarization X, all its other cells good, gave none.
C12_Witness ==
    /\ pt.pc = "done"
    /\ \E k1, k2 \in ProcessedTables :
         /\ HasFullRow(k1) /\ GetText(ColsOf(k1)[4].nodes) = <<"v">>
         /\ EmittedFor(k1) /\ TransponderOfTable(k1).polarization = <<"V">>
         /\ HasFullRow(k2) /\ ColsOf(k2) = ReplaceAt(GoodCols, 4, TextCell(<<"X">>))
         /\ ~EmittedFor(k2)


\* A well-formed data table: its first row has 12 cells or more and every cell
\* the parse converts can be converted.
WellFormedRow(cols) ==
    /\ Len(cols) >= 12
    /\ OtherCellsParse(cols)
    /\ LET links == Links(cols[9].nodes) IN links = <<>> \/ IsInt(LinkText(links[1]))
WellFormedTable(table) == table # <<>> /\ WellFormedRow(table[1].cells)
\* Malformed tables: no row, a short row, and rows with a frequency, a
\* polarization, an identifier or a symbol rate that does not parse.
MalformedTables ==
    {<<>>, <<Row("", SubSeq(GoodCols, 1, 11))>>,
     <<Row("", ReplaceAt(GoodCols, 3, TextCell(<<"InvalidFreq">>)))>>,
     <<Row("", ReplaceAt(GoodCols, 4, TextCell(<<"X">>)))>>,
     <<Row("", ReplaceAt(GoodCols, 5, TextCell(<<"abc">>)))>>}

\* The document with its frq tables replaced.
WithFrq(s, tables) == [s EXCEPT !.frq = tables]

\* Inserting a malformed data table anywhere after the header table, removing one,
\* or corrupting any data table leaves the records of the other tables as they are.
OtherTablesUntouched(s) ==
    /\ \A j \in 2..(Len(s.frq) + 1) : \A m \in MalformedTables :
         parse_transponders(WithFrq(s, InsertAt(s.frq, j, m))) = parse_transponders(s)
    /\ \A j \in 2..Len(s.frq) :
         /\ ~WellFormedTable(s.frq[j]) =>
              parse_transponders(WithFrq(s, DeleteAt(s.frq, j))) = parse_transponders(s)
         /\ Len(s.frq) > 2 =>
              \A m \in MalformedTables :
                parse_transponders(WithFrq(s, ReplaceAt(s.frq, j, m)))
                  = parse_transponders(WithFrq(s, DeleteAt(s.frq, j)))

\* The documents the isolation of the tables is checked on: a header table and
\* data tables that are well-formed (three different rows) or malformed.
IsolationTables ==
    {<<Row("", GoodCols)>>,
     <<Row("", ReplaceAt(GoodCols, 4, TextCell(<<"v">>)))>>,
     <<Row("", GoodCols \o <<ExtraCell>>)>>} \cup MalformedTables

InitIsolation ==
    /\ \E h \in {<<Row("#999999", ExpectedRowCells)>>,
                 <<Row("#999999", ExpectedRowCells \o <<IconLinkCell>>)>>,
                 <<Row("#999999", SwapAt(ExpectedRowCells, 1, 2))>>} :
         \E ts \in SeqsUpTo(IsolationTables, MaxTables) :
           soup = [frq |-> <<h>> \o ts, fl |-> <<>>]
    /\ self_transponders = <<>>
    /\ returned = <<>>
    /\ peer = PeerIdle
    /\ em = EmIdle
    /\ vh = VhIdle
    /\ pt = PtStart
    /\ pch = PchIdle
    /\ pa = PaIdle

SpecIsolation == InitIsolation /\ [][NextTransponders]_vars

\* C13: for a document with a valid header, the returned sequence is exactly the
\* records of the well-formed data tables, in document order; inserting, removing
\* or corrupting one malformed data table never changes the records of the other
\* tables; and parse_transponders never raises: it is at a step of the function
\* until it returns its list.
C13_TablesIsolated ==
    /\ RecordsMatchLog
    /\ pt.pc \in {"start", "find", "loop", "done"}
    /\ validate_header_table(soup) =>
         /\ \A k \in ProcessedTables :
              /\ EmittedFor(k) <=> WellFormedTable(DataTable(k))
              /\ EmittedFor(k) => TransponderOfTable(k) = RowTransponder(ColsOf(k))
         /\ pt.pc = "done" =>
              /\ pt.result = pt.transponders
              /\ pt.result = parse_transponders(soup)
              /\ ProcessedTables = 1..(Len(soup.frq) - 1)
              /\ OtherTablesUntouched(soup)

\* A table whose row raised stood before a well-formed one, which gave its record.
C13_Witness ==
    /\ pt.pc = "done"
    /\ validate_header_table(soup)
    /\ Len(pt.result) = 1
    /\ \E k \in ProcessedTables :
         /\ HasFullRow(k) /\ ~WellFormedTable(DataTable(k))
         /\ EmittedFor(k + 1)

-----------------------------------------------------------------------------
(* Claims about the rows of parse_channels, checked under Spec *)

\* The row the loop of parse_channels is at, and a step of the loop over it.
AtChannelRow ==
    /\ pch.pc = "loop"
    /\ pch.t <= Len(pch.tables)
    /\ pch.r <= Len(WhiteRows(pch.tables[pch.t]))
CurrentCols == Tds(WhiteRows(pch.tables[pch.t])[pch.r])
ChannelRowStep == AtChannelRow /\ pch'.r = pch.r + 1 /\ pch'.t = pch.t
EmitsChannel == pch'.channels # pch.channels
NewRecord == pch'.channels[Len(pch'.channels)]

SidParses(cols) == IsInt(GetText(cols[8].nodes))
DateParses(cols) == IsDate(DateChars(GetText(cols[14].nodes)))

ChannelFields ==
    {"channel_type", "name", "country", "category", "packages", "encryption", "sid",
     "vpid", "apids", "pmt", "pcr", "txt", "last_updated"}

\* A record with every field of a Channel, an integer sid and a date.
IsWholeChannel(c) ==
    /\ DOMAIN c = ChannelFields
    /\ c.sid \in Int
    /\ DOMAIN c.last_updated = {"year", "month", "day"}
    /\ c.last_updated.year \in 1..9999
    /\ c.last_updated.month \in 1..12
    /\ c.last_updated.day \in 1..DaysInMonth(c.last_updated.year, c.last_updated.month)

\* C14: a data row whose sid cell is no integer, or whose last_updated cell, with
\* every character that is not a digit or a hyphen removed, is no YYYY-MM-DD date,
\* yields no Channel; every Channel held or returned has an integer sid and a
\* well-formed last_updated, and is never partially populated.
C14_SidAndDateMandatory ==
    /\ [](/\ \A n \in 1..Len(pch.channels) : IsWholeChannel(pch.channels[n])
          /\ \A n \in 1..Len(pch.result) : IsWholeChannel(pch.result[n]))
    /\ [][ChannelRowStep =>
            LET cols == CurrentCols
                new == NewRecord
            IN  /\ Len(cols) >= 14 /\ ~(SidParses(cols) /\ DateParses(cols)) => ~EmitsChannel
                /\ EmitsChannel =>
                     /\ pch'.channels = Append(pch.channels, new)
                     /\ new.sid = IntValue(GetText(cols[8].nodes))
                     /\ new.last_updated = DateOf(DateChars(GetText(cols[14].nodes)))]_vars

\* parse_channels has returned one Channel, that of the good row, from a
\* document that has a row with a sid or a date that does not parse as well.
C14_Witness ==
    /\ pch.pc = "done"
    /\ Len(pch.result) = 1
    /\ pch.result[1].sid = 5
    /\ \E n \in 1..Len(AllWhiteRows(soup.fl)) :
         LET cols == AllWhiteRows(soup.fl)[n].cells IN
         Len(cols) >= 14 /\ ~(SidParses(cols) /\ DateParses(cols))


\* C15: the optional numeric fields never void a row.  When sid and last_updated
\* parse, the row yields a Channel; a pmt, pcr or txt cell whose trimmed text is
\* not composed of digits only gives the field None, a vpid cell without a digit
\* gives vpid None and one with digits gives its first run of digits.
C15_OptionalFieldsNeverVoid ==
    [][ChannelRowStep /\ Len(CurrentCols) >= 14
         /\ SidParses(CurrentCols) /\ DateParses(CurrentCols) =>
          /\ EmitsChannel
          /\ ~IsDigitString(GetText(CurrentCols[11].nodes)) => NewRecord.pmt = None
          /\ ~IsDigitString(GetText(CurrentCols[12].nodes)) => NewRecord.pcr = None
          /\ ~IsDigitString(GetText(CurrentCols[13].nodes)) => NewRecord.txt = None
          /\ NewRecord.vpid = VpidOf(GetText(CurrentCols[9].nodes))]_vars

\* A string is trimmed: it has no white space at either end.
IsTrimmed(text) == Strip(text) = text

\* None, or a string that is trimmed and not empty.
AbsentOrText(v) == v = None \/ (Len(v) = 1 /\ v[1] # <<>> /\ IsTrimmed(v[1]))

\* The row with its country and category cells replaced by cells with a text.
WithCountryAndGenre(cols) ==
    [cols EXCEPT ![4] = TextCell(<<"UK">>), ![5] = TextCell(<<"News">>)]

\* C16: for every Channel of parse_channels, country and category are each None
\* or a trimmed string that is not empty; an empty country or category cell gives
\* None, never the empty string, and never makes the row be dropped.
C16_CountryCategoryAbsentOrText ==
    /\ [](\A n \in 1..Len(pch.channels) :
            /\ AbsentOrText(pch.channels[n].country)
            /\ AbsentOrText(pch.channels[n].category))
    /\ [](\A n \in 1..Len(pch.result) :
            /\ AbsentOrText(pch.result[n].country)
            /\ AbsentOrText(pch.result[n].category))
    /\ [][ChannelRowStep =>
            LET cols == CurrentCols
                new == NewRecord
            IN  Len(cols) >= 14 =>
                  /\ EmitsChannel <=> ~ChannelRowRaises(WithCountryAndGenre(cols))
                  /\ EmitsChannel =>
                       /\ GetText(cols[4].nodes) = <<>> => new.country = None
                       /\ GetText(cols[5].nodes) = <<>> => new.category = None
                       /\ GetText(cols[4].nodes) # <<>>
                            => new.country = Some(GetText(cols[4].nodes))
                       /\ GetText(cols[5].nodes) # <<>>
                            => new.category = Some(GetText(cols[5].nodes))]_vars

\* A row whose country cell holds a non-breaking space only gave a Channel with
\* no country and the category News.
C16_Witness ==
    /\ pch.pc = "done"
    /\ \E n \in 1..Len(pch.result) :
         /\ pch.result[n].country = None
         /\ pch.result[n].category = Some(<<"News">>)


\* A row parse_channels can read: 14 cells, a sid and a date that parse, and no
\* numeric cell that isdigit() accepts and int() rejects.
GoodChannelRow(cols) ==
    /\ Len(cols) >= 14
    /\ SidParses(cols)
    /\ DateParses(cols)
    /\ \A c \in 11..13 :
         IsDigitString(GetText(cols[c].nodes)) => IsInt(GetText(cols[c].nodes))

\* The white rows that fail.
FailingRows == {row \in ChannelRows : row.bgcolor = "white" /\ ~GoodChannelRow(row.cells)}

\* Removing a failing row, or inserting one anywhere, leaves the Channels of the
\* other rows as they are.
OtherRowsUntouched(rows) ==
    /\ \A n \in 1..Len(rows) :
         ~GoodChannelRow(rows[n].cells) => ChannelsOf(DeleteAt(rows, n)) = ChannelsOf(rows)
    /\ \A n \in 1..(Len(rows) + 1) : \A row \in FailingRows :
         ChannelsOf(InsertAt(rows, n, row)) = ChannelsOf(rows)

\* C17: a failure while parsing one data row, a row with too few cells included,
\* skips that row only: every other data row yields its Channel, in document
\* order; parse_channels never raises and always returns a sequence.
\* (The comparison with the documents of one row fewer or more is a matter of
\* the fl tables alone: it is made once per document, before parse_transponders
\* has taken a step.)
C17_RowsIsolated ==
    /\ [](pch.pc \in {"start", "loop", "done"})
    /\ [](pch.pc = "done" =>
            /\ pch.result = pch.channels
            /\ pch.result = ChannelsOf(AllWhiteRows(soup.fl))
            /\ Len(pch.result)
                 = Len(SelectSeq(AllWhiteRows(soup.fl), LAMBDA row : GoodChannelRow(row.cells))))
    /\ [](pch.pc = "done" /\ pt.pc = "start" => OtherRowsUntouched(AllWhiteRows(soup.fl)))
    /\ [][ChannelRowStep =>
            LET cols == CurrentCols
            IN  /\ EmitsChannel <=> GoodChannelRow(cols)
                /\ EmitsChannel => pch'.channels = Append(pch.channels, RowChannel(cols))
                /\ pch'.pc = "loop"]_vars

\* A row of 13 cells came before a good row, and parse_channels returned the
\* Channel of the good row.
C17_Witness ==
    /\ pch.pc = "done"
    /\ Len(pch.result) = 1
    /\ LET rows == AllWhiteRows(soup.fl) IN
       /\ Len(rows) = 2
       /\ Len(rows[1].cells) = 13
       /\ pch.result[1] = RowChannel(rows[2].cells)

-----------------------------------------------------------------------------
(* Calls made again and again on one scraper object *)

\* How many calls that have returned the model keeps account of.
MaxCalls == 3

\* What a call has returned: the method, the document of the scraper, the
\* argument of the call and the value.
Returned(method, arg, value) ==
    [method |-> method, doc |-> soup, arg |-> arg, value |-> value]

\* The caller of the scraper is between two calls: nothing is running.
NoCallRunning ==
    /\ pt.pc \in {"idle", "done"}
    /\ pch.pc \in {"idle", "done"}
    /\ pa.pc \in {"idle", "done"}

\* The caller calls parse_transponders; its call before, if any, has returned.
PT_Call ==
    /\ NoCallRunning
    /\ Len(returned) < MaxCalls
    /\ pt' = PtStart
    /\ returned' = IF pt.pc = "done"
                   THEN Append(returned, Returned("parse_transponders", <<>>, pt.result))
                   ELSE returned
    /\ UNCHANGED <<em, soup, self_transponders, vh, pch, pa, peer>>

\* The caller calls parse_channels.
PCH_Call ==
    /\ NoCallRunning
    /\ Len(returned) < MaxCalls
    /\ pch' = PchStart
    /\ returned' = IF pch.pc = "done"
                   THEN Append(returned, Returned("parse_channels", <<>>, pch.result))
                   ELSE returned
    /\ UNCHANGED <<em, soup, self_transponders, vh, pt, pa, peer>>

\* The audio-track cells of the document: cols[9] of the rows that have one.
ApidCellsOf(s) ==
    {AllWhiteRows(s.fl)[n].cells[10].nodes :
       n \in {k \in 1..Len(AllWhiteRows(s.fl)) : Len(AllWhiteRows(s.fl)[k].cells) >= 10}}

\* The caller calls parse_apids on an audio-track cell of the document.
PA_Call ==
    /\ NoCallRunning
    /\ Len(returned) < MaxCalls
    /\ \E nodes \in ApidCellsOf(soup) : pa' = PaStart(nodes)
    /\ returned' = IF pa.pc = "done"
                   THEN Append(returned, Returned("parse_apids", pa.apid_cell, pa.result))
                   ELSE returned
    /\ UNCHANGED <<em, soup, self_transponders, vh, pt, pch, peer>>

\* Two documents: a valid header, two data tables and a channel table of two
\* rows with different audio tracks; and the same with the header columns swapped.
RepeatRows ==
    <<Row("white", GoodChannelCols),
      Row("white", [GoodChannelCols EXCEPT
                      ![10] = Cell(<<>>, <<TextNode(<<"5", "\n", "6">>),
                                           Element("font", <<"NAR">>),
                                           Element("font", <<"eng">>)>>)])>>
RepeatDocuments ==
    {[frq |-> <<<<Row("#999999", h)>>, <<Row("", GoodCols)>>,
                <<Row("", ReplaceAt(GoodCols, 4, TextCell(<<"v">>)))>>>>,
      fl |-> <<RepeatRows>>] :
       h \in {ExpectedRowCells, SwapAt(ExpectedRowCells, 1, 2)}}

InitRepeat ==
    /\ soup \in RepeatDocuments
    /\ self_transponders = <<>>
    /\ returned = <<>>
    /\ peer = PeerIdle
    /\ em = EmIdle
    /\ vh = VhIdle
    /\ pt = PtIdle
    /\ pch = PchIdle
    /\ pa = PaIdle

NextRepeat ==
    PT_Call \/ PCH_Call \/ PA_Call \/ NextTransponders \/ NextChannels \/ NextApids

SpecRepeat == InitRepeat /\ [][NextRepeat]_vars

\* What a call of the method returns on a scraper built from the document.
ValueOfCall(method, doc, arg) ==
    CASE method = "parse_transponders" -> parse_transponders(doc)
      [] method = "parse_channels" -> parse_channels(doc)
      [] method = "parse_apids" -> parse_apids(arg)

\* C18: parsing is deterministic and leaves no hidden state.  No step of a parse
\* modifies the document tree, the audio-track cell it was given or an attribute
\* of the scraper; every call returns what the method returns on a scraper
\* freshly built from the same document, so two calls of a method on the same
\* document return the same sequence, whatever calls were made in between.
C18_Deterministic ==
    /\ [][soup' = soup /\ self_transponders' = self_transponders]_vars
    /\ [][pa.pc \notin {"idle", "done"} => pa'.apid_cell = pa.apid_cell]_vars
    /\ [](\A n \in 1..Len(returned) :
            returned[n].value
              = ValueOfCall(returned[n].method, returned[n].doc, returned[n].arg))
    /\ [](\A n1, n2 \in 1..Len(returned) :
            /\ returned[n1].method = returned[n2].method
            /\ returned[n1].doc = returned[n2].doc
            /\ returned[n1].arg = returned[n2].arg
            => returned[n1].value = returned[n2].value)
    /\ [](pt.pc = "done" => pt.result = parse_transponders(soup))
    /\ [](pch.pc = "done" => pch.result = parse_channels(soup))
    /\ [](pa.pc = "done" => pa.result = parse_apids(pa.apid_cell))

\* parse_transponders returned its two records, parse_channels was called and
\* returned, and parse_transponders returned the same two records again.
C18_Witness ==
    \E n1, n2, n3 \in 1..Len(returned) :
      /\ n1 < n2 /\ n2 < n3
      /\ returned[n1].method = "parse_transponders"
      /\ Len(returned[n1].value) = 2
      /\ returned[n2].method = "parse_channels"
      /\ returned[n2].value # <<>>
      /\ returned[n3].method = "parse_transponders"
      /\ returned[n3].value = returned[n1].value

-----------------------------------------------------------------------------
(* Two callers, each with a scraper object of its own *)

\* The scheduler switches callers: the running caller's scraper and frame are
\* set aside and those of the waiting caller are taken up where they were left.
Switch ==
    /\ soup' = peer.soup
    /\ self_transponders' = peer.self_transponders
    /\ pt' = peer.pt
    /\ peer' = [soup |-> soup, self_transponders |-> self_transponders, pt |-> pt]
    /\ UNCHANGED <<em, vh, pch, pa, returned>>

\* Three documents: two data tables, one data table of another row, and two
\* data tables behind a header that does not validate.
TwoScraperDocuments ==
    {[frq |-> <<<<Row("#999999", ExpectedRowCells)>>, <<Row("", GoodCols)>>,
                <<Row("", ReplaceAt(GoodCols, 4, TextCell(<<"v">>)))>>>>,
      fl |-> <<>>],
     [frq |-> <<<<Row("#999999", ExpectedRowCells)>>,
                <<Row("", ReplaceAt(GoodCols, 4, TextCell(<<"v">>)))>>>>,
      fl |-> <<>>],
     [frq |-> <<<<Row("#999999", SwapAt(ExpectedRowCells, 1, 2))>>, <<Row("", GoodCols)>>,
                <<Row("", GoodCols)>>>>,
      fl |-> <<>>]}

InitTwoScrapers ==
    /\ soup \in TwoScraperDocuments
    /\ self_transponders = <<>>
    /\ returned = <<>>
    /\ \E doc \in TwoScraperDocuments :
         peer = [soup |-> doc, self_transponders |-> <<>>, pt |-> PtIdle]
    /\ em = EmIdle
    /\ vh = VhIdle
    /\ pt = PtIdle
    /\ pch = PchIdle
    /\ pa = PaIdle

NextTwoScrapers == PT_Call \/ NextTransponders \/ Switch

SpecTwoScrapers == InitTwoScrapers /\ [][NextTwoScrapers]_vars

\* C19: parses of different documents by independent callers share no state.
\* Under every interleaving of the steps of two parses on two scraper objects,
\* a step of one parse leaves the other scraper and its parse as they are, and
\* each parse returns what it returns when it runs alone.
C19_NoSharedState ==
    /\ [][\/ peer' = peer
          \/ /\ peer' = [soup |-> soup, self_transponders |-> self_transponders, pt |-> pt]
             /\ soup' = peer.soup /\ pt' = peer.pt]_vars
    /\ [](pt.pc = "done" => pt.result = parse_transponders(soup))
    /\ [](peer.pt.pc = "done" => peer.pt.result = parse_transponders(peer.soup))
    /\ [](\A n \in 1..Len(returned) :
            returned[n].value = parse_transponders(returned[n].doc))

\* One caller's parse has returned its record while the other caller's parse, of
\* another document, is in the middle of its loop with one record gathered.
C19_Witness ==
    /\ pt.pc = "done"
    /\ Len(pt.result) = 1
    /\ peer.pt.pc = "loop"
    /\ peer.pt.i = 2
    /\ Len(peer.pt.transponders) = 1
    /\ peer.soup # soup
    /\ peer.pt.transponders # pt.result


\* ---------------------------------------------------------------------------
\* Channel tables nested inside one another
\* ---------------------------------------------------------------------------

\* Rows of a nested table: the good row, a row whose SID does not parse, and a
\* row that is not white.
NestedRows ==
    {Row("white", GoodChannelCols),
     Row("white", [GoodChannelCols EXCEPT ![8] = TextCell(<<"abc">>)]),
     Row("#999999", GoodChannelCols)}

\* The cells of a row with a table added to one of them, after what it holds.
WithTableIn(cols, c, class, table) ==
    [cols EXCEPT ![c] = Cell(cols[c].class, cols[c].nodes \o <<TableNode(class, table)>>)]

\* Documents of one fl table of one row, white or not, with a table, of class fl
\* or of no class, nested in the second or in the last cell of the row.
NestedDocuments ==
    {<<<<Row(bgcolor, WithTableIn(GoodChannelCols, c, class, table))>>>> :
       bgcolor \in {"white", "#999999"}, c \in {2, 14}, class \in {"fl", ""},
       table \in SeqsUpTo(NestedRows, MaxChannelRows)}

InitNested ==
    /\ \E fl \in NestedDocuments : soup = [frq |-> <<>>, fl |-> fl]
    /\ self_transponders = <<>>
    /\ returned = <<>>
    /\ peer = PeerIdle
    /\ em = EmIdle
    /\ vh = VhIdle
    /\ pt = PtIdle
    /\ pch = PchStart
    /\ pa = PaIdle

SpecNested == InitNested /\ [][NextChannels]_vars

\* The data rows of the document: the white rows inside its fl tables, each row
\* once, at whatever depth it lies.
DataRowsOf(s) == Flatten([k \in 1..Len(s.fl) |-> WhiteRows(s.fl[k])])

\* C20: parse_channels returns no more Channels than the document has data
\* rows, also when fl tables are nested inside one another.
C20_OneChannelPerRow ==
    pch.pc = "done" => Len(pch.result) <= Len(DataRowsOf(soup))


-----------------------------------------------------------------------------
(* The pairing and the entries of tagged fragments *)

\* C21: the positional pairing of untagged identifiers with the font texts never
\* overwrites an entry recorded from a tagged fragment: no step of the pairing
\* loop changes the entry of a tag carried by a fragment, and the mapping returned
\* holds, for every tag other than "nar", the identifier of the last fragment that
\* carries it, also when the cell has untagged fragments.
C21_PairingKeepsTagged ==
    /\ [][pa.pc = "pair" /\ pa'.pc = "pair" =>
            \A k \in TaggedFragments :
              LET tag == FragmentMatch(k).tag
              IN  /\ DictHas(pa'.apids, tag)
                  /\ DictGet(pa'.apids, tag) = DictGet(pa.apids, tag)]_vars
    /\ [](pa.pc = "done" /\ pa.raw_apids # <<>> =>
            \A k \in TaggedFragments :
              (\A n \in TaggedFragments : n > k => FragmentMatch(n).tag # FragmentMatch(k).tag)
                => /\ DictHas(pa.result, FragmentMatch(k).tag)
                   /\ DictGet(pa.result, FragmentMatch(k).tag) = FragmentMatch(k).pid)


-----------------------------------------------------------------------------
(* m3u.enrich_m3u.enrich_m3u *)

\* dict.get(key): the value, or None.
DictLookup(d, key) == IF DictHas(d, key) THEN Some(DictGet(d, key)) ELSE None

\* "not x" of what dict.get returned: None, the empty string and the empty dict
\* are false.
IsFalsy(x) == IF x = None THEN TRUE ELSE x[1] = <<>>

\* line.startswith("#EXTINF:")
IsExtinf(line) == line # <<>> /\ line[1] = "#EXTINF:"

\* line.split(",", 1): the text before the first comma and the text after it,
\* or the line alone when it has no comma.
SplitAtComma(line) ==
    LET n == PrefixLen(line, {line[k] : k \in 1..Len(line)} \ {","})
    IN  IF n = Len(line) THEN <<line>>
        ELSE <<SubSeq(line, 1, n), Drop(line, n + 1)>>

\* line.split(",", 1)[1].strip(), where the index is in range.
ChannelName(line) == Strip(SplitAtComma(line)[2])

\* What the two subscripts of the entry branch raise: [1] on a line with no
\* comma, lines[i + 1] on the last line.  The index i counts from 0.
EntryRaises(lines, i) ==
    \/ Len(SplitAtComma(Strip(lines[i + 1]))) < 2
    \/ i + 1 >= Len(lines)

\* enriched_line
EnrichedLine(callsign, channel_name) ==
    <<"#EXTINF:", "-1", " ", "channel-id=", "\"">> \o callsign
      \o <<"\"", " ", "tvg-name=", "\"">> \o channel_name \o <<"\"", ",">> \o callsign

EmStart(infile, name_to_callsign, callsign_to_info) ==
    [pc |-> "start", infile |-> infile, name_to_callsign |-> name_to_callsign,
     callsign_to_info |-> callsign_to_info, outfile |-> <<>>, lines |-> <<>>, i |-> 0,
     enriched |-> 0, missing_name |-> 0, missing_callsign |-> 0, raised |-> ""]

\* The line at the index, stripped, and what the entry branch reads from it.
EmLine == Strip(em.lines[em.i + 1])
EmCallsign == DictLookup(em.name_to_callsign, ChannelName(EmLine))
EmInfo == DictLookup(em.callsign_to_info, EmCallsign[1])

\* enriched = 0; ...; outfile.write("#EXTM3U\n"); lines = infile.readlines(); i = 0
EM_Open ==
    /\ em.pc = "start"
    /\ em' = [em EXCEPT !.pc = "loop", !.outfile = <<<<"#EXTM3U">>>>,
                        !.lines = em.infile, !.i = 0]
    /\ UNCHANGED <<soup, self_transponders, vh, pt, pch, pa, returned, peer>>

\* else: i += 1
EM_Other ==
    /\ em.pc = "loop"
    /\ em.i < Len(em.lines)
    /\ ~IsExtinf(EmLine)
    /\ em' = [em EXCEPT !.i = em.i + 1]
    /\ UNCHANGED <<soup, self_transponders, vh, pt, pch, pa, returned, peer>>

\* An IndexError leaves the loop and the function; the with statement closes
\* the two files.
EM_Raise ==
    /\ em.pc = "loop"
    /\ em.i < Len(em.lines)
    /\ IsExtinf(EmLine)
    /\ EntryRaises(em.lines, em.i)
    /\ em' = [em EXCEPT !.pc = "raised", !.raised = "IndexError"]
    /\ UNCHANGED <<soup, self_transponders, vh, pt, pch, pa, returned, peer>>

\* if not callsign: missing_name += 1; i += 2; continue
EM_MissingName ==
    /\ em.pc = "loop"
    /\ em.i < Len(em.lines)
    /\ IsExtinf(EmLine)
    /\ ~EntryRaises(em.lines, em.i)
    /\ IsFalsy(EmCallsign)
    /\ em' = [em EXCEPT !.missing_name = em.missing_name + 1, !.i = em.i + 2]
    /\ UNCHANGED <<soup, self_transponders, vh, pt, pch, pa, returned, peer>>

\* if not info: missing_callsign += 1; i += 2; continue
EM_MissingCallsign ==
    /\ em.pc = "loop"
    /\ em.i < Len(em.lines)
    /\ IsExtinf(EmLine)
    /\ ~EntryRaises(em.lines, em.i)
    /\ ~IsFalsy(EmCallsign)
    /\ IsFalsy(EmInfo)
    /\ em' = [em EXCEPT !.missing_callsign = em.missing_callsign + 1, !.i = em.i + 2]
    /\ UNCHANGED <<soup, self_transponders, vh, pt, pch, pa, returned, peer>>

\* outfile.write(enriched_line + "\n"); outfile.write(stream_url + "\n");
\* enriched += 1; i += 2
EM_Enrich ==
    /\ em.pc = "loop"
    /\ em.i < Len(em.lines)
    /\ IsExtinf(EmLine)
    /\ ~EntryRaises(em.lines, em.i)
    /\ ~IsFalsy(EmCallsign)
    /\ ~IsFalsy(EmInfo)
    /\ em' = [em EXCEPT
                !.outfile = em.outfile \o <<EnrichedLine(EmCallsign[1], ChannelName(EmLine)),
                                            Strip(em.lines[em.i + 2])>>,
                !.enriched = em.enriched + 1, !.i = em.i + 2]
    /\ UNCHANGED <<soup, self_transponders, vh, pt, pch, pa, returned, peer>>

\* The loop ends, the files are closed, the summary is printed.
EM_Return ==
    /\ em.pc = "loop"
    /\ em.i >= Len(em.lines)
    /\ em' = [em EXCEPT !.pc = "done"]
    /\ UNCHANGED <<soup, self_transponders, vh, pt, pch, pa, returned, peer>>

NextM3u ==
    EM_Open \/ EM_Other \/ EM_Raise \/ EM_MissingName \/ EM_MissingCallsign
      \/ EM_Enrich \/ EM_Return

-----------------------------------------------------------------------------
(* The playlists enrich_m3u is run on *)

MaxLines == 3

\* An #EXTINF line of a channel.
ExtinfLine(name) == <<"#EXTINF:", "-1", ",">> \o name

\* Lines of a playlist: the header, the entries of a channel that is in both
\* mappings (also indented, with blanks around its name), of one whose callsign
\* Gracenote does not have, of one whose callsign is empty and of one with no
\* callsign; an #EXTINF line with no comma; a URL; an empty line.
PlaylistLines ==
    {<<"#EXTM3U">>,
     ExtinfLine(<<"BBC">>),
     <<" ">> \o ExtinfLine(<<" ", "BBC", ",", "One", " ">>),
     ExtinfLine(<<"ITV">>),
     ExtinfLine(<<"Sky">>),
     ExtinfLine(<<"Dave">>),
     <<"#EXTINF:", "-1", " ", "BBC">>,
     <<"http://a", "\n">>,
     <<>>}

Playlists == SeqsUpTo(PlaylistLines, MaxLines)

\* What load_name_to_callsign and load_callsign_to_channel_info return: names
\* and callsigns are stripped, a callsign may be empty in the CSV file, and
\* Gracenote has no entry with an empty callsign.
NameToCallsign ==
    <<[key |-> <<"BBC">>, val |-> <<"BBC1">>],
      [key |-> <<"BBC", ",", "One">>, val |-> <<"BBC1">>],
      [key |-> <<"ITV">>, val |-> <<"ITV1">>],
      [key |-> <<"Sky">>, val |-> <<>>]>>
CallsignToInfo ==
    <<[key |-> <<"BBC1">>,
       val |-> <<[key |-> "channel", val |-> <<"1", "0", "1">>],
                 [key |-> "stationId", val |-> <<"2", "4", "3", "2", "1">>],
                 [key |-> "name", val |-> <<"BBC", " ", "One">>]>>]>>

InitM3u ==
    /\ soup = [frq |-> <<>>, fl |-> <<>>]
    /\ self_transponders = <<>>
    /\ returned = <<>>
    /\ peer = PeerIdle
    /\ vh = VhIdle
    /\ pt = PtIdle
    /\ pch = PchIdle
    /\ pa = PaIdle
    /\ \E infile \in Playlists : em = EmStart(infile, NameToCallsign, CallsignToInfo)

SpecM3u == InitM3u /\ [][NextM3u]_vars


-----------------------------------------------------------------------------
(* Claims about enrich_m3u *)

\* The #EXTINF entries of a playlist: the positions of its #EXTINF lines, from 1.
EntryLines(lines) == {k \in 1..Len(lines) : IsExtinf(Strip(lines[k]))}

\* The channel name of the entry at k maps to a callsign that Gracenote has.
EntryIsMapped(lines, k) ==
    /\ Len(SplitAtComma(Strip(lines[k]))) = 2
    /\ LET callsign == DictLookup(em.name_to_callsign, ChannelName(Strip(lines[k])))
       IN  /\ ~IsFalsy(callsign)
           /\ ~IsFalsy(DictLookup(em.callsign_to_info, callsign[1]))

\* The two lines written for the entry at k: the enriched line and the line
\* that follows the entry in the playlist.
EntryOutput(lines, k) ==
    LET name == ChannelName(Strip(lines[k])) IN
    <<EnrichedLine(DictGet(em.name_to_callsign, name), name),
      IF k < Len(lines) THEN Strip(lines[k + 1]) ELSE <<>>>>

\* What the claim has enrich_m3u write for the lines from k on.
RECURSIVE ExpectedFrom(_, _)
ExpectedFrom(lines, k) ==
    IF k > Len(lines) THEN <<>>
    ELSE (IF k \in EntryLines(lines) /\ EntryIsMapped(lines, k)
          THEN EntryOutput(lines, k) ELSE <<>>) \o ExpectedFrom(lines, k + 1)

\* C22: enrich_m3u writes the #EXTM3U header once and then, for the #EXTINF
\* entries of the input in input order, the enriched line and the stream URL of
\* exactly the entries whose channel name maps to a callsign that Gracenote has;
\* at the end the three counters add up to the number of entries.
C22_EnrichedEntries ==
    em.pc = "done" =>
      /\ em.outfile = <<<<"#EXTM3U">>>> \o ExpectedFrom(em.infile, 1)
      /\ em.enriched + em.missing_name + em.missing_callsign
           = Cardinality(EntryLines(em.infile))

\* C23: the loop of enrich_m3u ends normally on every playlist: no #EXTINF line,
\* be it the last line or a line with no comma, makes a step raise; the index
\* grows at every turn of the loop and never passes the end of the lines, so
\* that the loop is left after at most as many turns as there are lines.
C23_LoopEndsNormally ==
    /\ [](em.pc # "raised")
    /\ [](em.pc \in {"loop", "done"} => em.i <= Len(em.lines))
    /\ [][em.pc = "loop" /\ em'.pc = "loop" => em'.i > em.i]_vars
    /\ [][em.pc = "loop" /\ em.i >= Len(em.lines) => em'.pc = "done"]_vars

====
